---- MODULE Spec2Model ----
(***************************************************************************)
(* A model of pillar's document format engine: the frontmatter codec       *)
(* (parse_frontmatter / write_with_frontmatter), the comment log codec     *)
(* (read_comments / write_comments) of src/src/parser.rs, and the          *)
(* commands that rewrite a document (comment add, edit_issue, the web      *)
(* UI's issue update).                                                     *)
(*                                                                         *)
(* Text is a sequence of one-character strings, so that find, trim, lines  *)
(* and slicing are computed character by character as the Rust code does.  *)
(* Offsets are 0-based as in Rust; Sub(s, a, b) is the slice s[a..b].      *)
(***************************************************************************)
EXTENDS Integers, Sequences, FiniteSets, TLC

(***************************************************************************)
(* str primitives of the Rust standard library used by the code            *)
(***************************************************************************)
NL == "\n"

Whitespace == {" ", "\n", "\t", "\r"}

\* s[a..b]
Sub(s, a, b) == SubSeq(s, a + 1, b)

\* s[a..]
From(s, a) == SubSeq(s, a + 1, Len(s))

\* str::starts_with
StartsWith(s, p) == Len(s) >= Len(p) /\ SubSeq(s, 1, Len(p)) = p

\* does pattern p occur in s at 0-based offset i
OccursAt(s, p, i) == i >= 0 /\ i + Len(p) <= Len(s) /\ SubSeq(s, i + 1, i + Len(p)) = p

\* str::find: the offset of the first occurrence of p in s, or -1 for None
Find(s, p) ==
  LET hits == {i \in 0..(Len(s) - Len(p)) : OccursAt(s, p, i)}
  IN IF hits = {} THEN -1 ELSE CHOOSE i \in hits : \A j \in hits : i <= j

\* str::contains
Contains(s, p) == Find(s, p) >= 0

\* str::trim_end
TrimEnd(s) ==
  LET keep == {i \in 1..Len(s) : s[i] \notin Whitespace}
  IN IF keep = {} THEN <<>>
     ELSE SubSeq(s, 1, CHOOSE i \in keep : \A j \in keep : j <= i)

\* str::trim_start
TrimStart(s) ==
  LET keep == {i \in 1..Len(s) : s[i] \notin Whitespace}
  IN IF keep = {} THEN <<>>
     ELSE SubSeq(s, CHOOSE i \in keep : \A j \in keep : i <= j, Len(s))

\* str::trim
Trim(s) == TrimStart(TrimEnd(s))

\* str::lines: split at "\n"; a final empty piece yields no line
RECURSIVE Lines(_)
Lines(s) ==
  IF s = <<>> THEN <<>>
  ELSE LET n == Find(s, <<NL>>)
       IN IF n < 0 THEN <<s>>
          ELSE <<Sub(s, 0, n)>> \o Lines(From(s, n + 1))

\* [&str]::join("\n")
RECURSIVE JoinLines(_)
JoinLines(ls) ==
  IF ls = <<>> THEN <<>>
  ELSE IF Len(ls) = 1 THEN ls[1]
  ELSE ls[1] \o <<NL>> \o JoinLines(Tail(ls))

\* concatenation of a sequence of texts
RECURSIVE Concat(_)
Concat(ts) == IF ts = <<>> THEN <<>> ELSE Head(ts) \o Concat(Tail(ts))

(***************************************************************************)
(* The literals of the two text formats                                    *)
(***************************************************************************)
\* "---"
DELIM == <<"-", "-", "-">>
\* "\n---"
NL_DELIM == <<NL>> \o DELIM
\* "\n---\n"
NL_DELIM_NL == <<NL>> \o DELIM \o <<NL>>
\* "## Comments"
HEADING == <<"#", "#", " ", "C", "o", "m", "m", "e", "n", "t", "s">>
\* "## Comments\n"
HEADING_NL == HEADING \o <<NL>>
\* "\n## Comments\n"
NL_HEADING_NL == <<NL>> \o HEADING \o <<NL>>
\* "### ["
MARKER == <<"#", "#", "#", " ", "[">>
\* "## "
SECTION == <<"#", "#", " ">>
\* " - "
DASH == <<" ", "-", " ">>
\* "Unknown"
UNKNOWN == <<"U", "n", "k", "n", "o", "w", "n">>

(***************************************************************************)
(* Comment log codec (parser.rs).  A Comment is the record                 *)
(* [author, timestamp, content]; an Option is a sequence of length 0 or 1. *)
(***************************************************************************)
Comment(author, timestamp, content) ==
  [author |-> author, timestamp |-> timestamp, content |-> content]

\* CloseComment storing the joined lines untrimmed
CloseComment_Untrimmed(comments, current, content_lines) ==
  IF current = <<>> THEN comments
  ELSE Append(comments, [current[1] EXCEPT !.content = JoinLines(content_lines)])

\* the "Save previous comment" step: content_lines.join("\n").trim()
CloseComment(comments, current, content_lines) ==
  IF current = <<>> THEN comments
  ELSE Append(comments, [current[1] EXCEPT !.content = Trim(JoinLines(content_lines))])

\* ParseMarker taking the author after the last " - " of the line
ParseMarker_LastDash(line) ==
  LET close_bracket == Find(line, <<"]">>)
      dashes == {p \in 0..(Len(line) - 3) : Sub(line, p, p + 3) = DASH}
      author == IF dashes = {} THEN UNKNOWN
                ELSE Trim(From(line, 3 + CHOOSE p \in dashes : \A q \in dashes : q <= p))
  IN IF close_bracket >= 0
     THEN <<Comment(author, Sub(line, 5, close_bracket), <<>>)>>
     ELSE <<>>

\* the comment header "### [timestamp] - author" of one marker line
ParseMarker(line) ==
  LET close_bracket == Find(line, <<"]">>)
      rest == From(line, close_bracket + 1)
      dash_pos == Find(rest, DASH)
      author == IF dash_pos >= 0 THEN Trim(From(rest, dash_pos + 3)) ELSE UNKNOWN
  IN IF close_bracket >= 0
     THEN <<Comment(author, Sub(line, 5, close_bracket), <<>>)>>
     ELSE <<>>

\* a slice s[a..b] panics unless a <= b <= s.len()
SliceInBounds(s, a, b) == 0 <= a /\ a <= b /\ b <= Len(s)

\* ParseMarkerPanics taking the author from rest[dash_pos + 4..]
ParseMarkerPanics_LateAuthor(line) ==
  LET slices(close_bracket, rest, dash_pos) ==
        \/ ~SliceInBounds(line, 5, close_bracket)
        \/ ~SliceInBounds(line, close_bracket + 1, Len(line))
        \/ dash_pos >= 0 /\ ~SliceInBounds(rest, dash_pos + 4, Len(rest))
      header(close_bracket, rest) == slices(close_bracket, rest, Find(rest, DASH))
      marker(close_bracket) ==
        close_bracket >= 0 /\ header(close_bracket, From(line, close_bracket + 1))
  IN marker(Find(line, <<"]">>))

\* a slice ParseMarker takes of a marker line is out of bounds:
\* line[5..close_bracket], line[close_bracket + 1..], rest[dash_pos + 3..]
ParseMarkerPanics(line) ==
  LET slices(close_bracket, rest, dash_pos) ==
        \/ ~SliceInBounds(line, 5, close_bracket)
        \/ ~SliceInBounds(line, close_bracket + 1, Len(line))
        \/ dash_pos >= 0 /\ ~SliceInBounds(rest, dash_pos + 3, Len(rest))
      header(close_bracket, rest) == slices(close_bracket, rest, Find(rest, DASH))
      marker(close_bracket) ==
        close_bracket >= 0 /\ header(close_bracket, From(line, close_bracket + 1))
  IN marker(Find(line, <<"]">>))

\* the loop over comments_section.lines() reaches a marker line whose slices panic
RECURSIVE ScanPanics(_)
ScanPanics(lines) ==
  IF lines = <<>> THEN FALSE
  ELSE IF StartsWith(Head(lines), MARKER)
    THEN ParseMarkerPanics(Head(lines)) \/ ScanPanics(Tail(lines))
  ELSE IF StartsWith(Head(lines), SECTION) THEN FALSE
  ELSE ScanPanics(Tail(lines))

\* the loop over comments_section.lines() without the break at a "## " line
RECURSIVE ScanLines_NoBreak(_, _, _, _)
ScanLines_NoBreak(lines, comments, current, content_lines) ==
  IF lines = <<>> THEN CloseComment(comments, current, content_lines)
  ELSE LET line == Head(lines) IN
    IF StartsWith(line, MARKER)
      THEN ScanLines_NoBreak(Tail(lines),
                             CloseComment(comments, current, content_lines),
                             ParseMarker(line),
                             IF current = <<>> THEN content_lines ELSE <<>>)
    ELSE IF current # <<>> /\ ~StartsWith(line, SECTION)
      THEN ScanLines_NoBreak(Tail(lines), comments, current, Append(content_lines, line))
    ELSE ScanLines_NoBreak(Tail(lines), comments, current, content_lines)

\* ScanLines leaving the open comment open at a marker line without "]"
RECURSIVE ScanLines_KeepCurrent(_, _, _, _)
ScanLines_KeepCurrent(lines, comments, current, content_lines) ==
  IF lines = <<>> THEN CloseComment(comments, current, content_lines)
  ELSE LET line == Head(lines) IN
    IF StartsWith(line, MARKER) /\ ParseMarker(line) # <<>>
      THEN ScanLines_KeepCurrent(Tail(lines),
                     CloseComment(comments, current, content_lines),
                     ParseMarker(line),
                     <<>>)
    ELSE IF StartsWith(line, MARKER)
      THEN ScanLines_KeepCurrent(Tail(lines), comments, current, content_lines)
    ELSE IF StartsWith(line, SECTION)
      THEN CloseComment(comments, current, content_lines)
    ELSE IF current # <<>>
      THEN ScanLines_KeepCurrent(Tail(lines), comments, current, Append(content_lines, line))
    ELSE ScanLines_KeepCurrent(Tail(lines), comments, current, content_lines)

\* the loop over comments_section.lines()
RECURSIVE ScanLines(_, _, _, _)
ScanLines(lines, comments, current, content_lines) ==
  IF lines = <<>> THEN CloseComment(comments, current, content_lines)
  ELSE LET line == Head(lines) IN
    IF StartsWith(line, MARKER)
      THEN ScanLines(Tail(lines),
                     CloseComment(comments, current, content_lines),
                     ParseMarker(line),
                     IF current = <<>> THEN content_lines ELSE <<>>)
    ELSE IF StartsWith(line, SECTION)
      THEN CloseComment(comments, current, content_lines)
    ELSE IF current # <<>>
      THEN ScanLines(Tail(lines), comments, current, Append(content_lines, line))
    ELSE ScanLines(Tail(lines), comments, current, content_lines)

\* SectionText finding the heading anywhere, also in the middle of a line
SectionText_AnyHeading(body) ==
  LET pos == Find(body, HEADING_NL)
  IN IF pos >= 0 THEN <<From(body, pos + 12)>> ELSE <<>>

\* SectionText trying the heading at the start of the body first
SectionText_PrefixFirst(body) ==
  LET pos == Find(body, NL_HEADING_NL)
  IN IF StartsWith(body, HEADING_NL) THEN <<From(body, Len(HEADING_NL))>>
     ELSE IF pos >= 0 THEN <<From(body, pos + 13)>>
     ELSE <<>>

\* the text after the "## Comments" heading, as an Option:
\* body.find("\n## Comments\n"), else body.strip_prefix("## Comments\n")
SectionText(body) ==
  LET pos == Find(body, NL_HEADING_NL)
  IN IF pos >= 0 THEN <<From(body, pos + 13)>>
     ELSE IF StartsWith(body, HEADING_NL) THEN <<From(body, Len(HEADING_NL))>>
     ELSE <<>>

read_comments(body) ==
  LET comments_section == SectionText(body)
  IN IF comments_section = <<>> THEN <<>>
     ELSE ScanLines(Lines(comments_section[1]), <<>>, <<>>, <<>>)

\* read_comments panics on the body
read_comments_panics(body) ==
  LET scan(comments_section) ==
        comments_section # <<>> /\ ScanPanics(Lines(comments_section[1]))
  IN scan(SectionText(body))

\* BodyWithoutComments trimming the remainder at both ends
BodyWithoutComments_TrimBoth(body) ==
  LET pos == Find(body, NL_HEADING_NL)
  IN IF pos >= 0 THEN Trim(Sub(body, 0, pos))
     ELSE IF StartsWith(body, HEADING_NL) THEN <<>>
     ELSE Trim(body)

\* "Remove existing comments section if present"
BodyWithoutComments(body) ==
  LET pos == Find(body, NL_HEADING_NL)
  IN IF pos >= 0 THEN TrimEnd(Sub(body, 0, pos))
     ELSE IF StartsWith(body, HEADING_NL) THEN <<>>
     ELSE TrimEnd(body)

\* format!("\n### [{}] - {}\n", timestamp, author) + content + '\n'
EntryText(c) ==
  <<NL>> \o MARKER \o c.timestamp \o <<"]">> \o DASH \o c.author \o <<NL>>
    \o c.content \o <<NL>>

RECURSIVE EntriesText(_)
EntriesText(comments) ==
  IF comments = <<>> THEN <<>>
  ELSE EntryText(Head(comments)) \o EntriesText(Tail(comments))

write_comments(body, comments) ==
  IF comments = <<>> THEN BodyWithoutComments(body)
  ELSE BodyWithoutComments(body) \o <<NL, NL>> \o HEADING_NL \o EntriesText(comments)

\* the Comment struct with its id field: the comment c holding the id
IdComment(id, c) ==
  [id |-> id, author |-> c.author, timestamp |-> c.timestamp, content |-> c.content]

\* read_comments taking each entry's id from the stored header's timestamp
read_comments_ids_Stored(body, tokens) ==
  LET identify(cs) == [i \in 1..Len(cs) |-> IdComment(cs[i].timestamp, cs[i])]
  IN identify(read_comments(body))

\* read_comments with the id it gives each entry: the comment made for the i-th
\* header parsed takes the i-th token uuid::Uuid::new_v4() yields during the call
read_comments_ids(body, tokens) ==
  LET identify(cs) == [i \in 1..Len(cs) |-> IdComment(tokens[i], cs[i])]
  IN identify(read_comments(body))

(***************************************************************************)
(* The structured-data serializer (serde_yaml) for IssueMetadata, as far   *)
(* as the frontmatter codec depends on it: one "key: value" line per       *)
(* field in declaration order, None fields skipped, tags as a block        *)
(* sequence, strings that YAML would misread single-quoted.  The fields    *)
(* project and created are written once at creation and behave as          *)
(* milestone and updated do; they are left out.  Scalars hold no newline   *)
(* and no quote character.                                                 *)
(***************************************************************************)
\* #[serde(rename_all = "kebab-case")]
StatusName ==
  [Backlog |-> <<"b", "a", "c", "k", "l", "o", "g">>, Todo |-> <<"t", "o", "d", "o">>, InProgress |-> <<"i", "n", "-", "p", "r", "o", "g", "r", "e", "s", "s">>,
   Completed |-> <<"c", "o", "m", "p", "l", "e", "t", "e", "d">>, Cancelled |-> <<"c", "a", "n", "c", "e", "l", "l", "e", "d">>]

\* #[serde(rename_all = "lowercase")]
PriorityName ==
  [Low |-> <<"l", "o", "w">>, Medium |-> <<"m", "e", "d", "i", "u", "m">>, High |-> <<"h", "i", "g", "h">>, Urgent |-> <<"u", "r", "g", "e", "n", "t">>]

K_title == <<"t", "i", "t", "l", "e">>
K_status == <<"s", "t", "a", "t", "u", "s">>
K_priority == <<"p", "r", "i", "o", "r", "i", "t", "y">>
K_milestone == <<"m", "i", "l", "e", "s", "t", "o", "n", "e">>
K_tags == <<"t", "a", "g", "s">>
K_updated == <<"u", "p", "d", "a", "t", "e", "d">>
\* ": "
COLON == <<":", " ">>
\* "- "
ITEM == <<"-", " ">>
\* "[]"
EMPTY_LIST == <<"[", "]">>

IssueMetadata(title, status, priority, milestone, tags, updated) ==
  [title |-> title, status |-> status, priority |-> priority,
   milestone |-> milestone, tags |-> tags, updated |-> updated]

\* a plain scalar would not read back as the same string
NeedsQuote(v) ==
  \/ v = <<>>
  \/ v[1] \in {"-", "#", "[", "]", "'", ":", " ", "\t"}
  \/ v[Len(v)] \in {" ", "\t", ":"}
  \/ Contains(v, COLON)
  \/ Contains(v, <<" ", "#">>)

YamlScalar(v) == IF NeedsQuote(v) THEN <<"'">> \o v \o <<"'">> ELSE v

YamlUnscalar(t) ==
  LET v == Trim(t)
  IN IF Len(v) >= 2 /\ v[1] = "'" /\ v[Len(v)] = "'" THEN Sub(v, 1, Len(v) - 1) ELSE v

RECURSIVE YamlItems(_)
YamlItems(tags) ==
  IF tags = <<>> THEN <<>>
  ELSE ITEM \o YamlScalar(Head(tags)) \o <<NL>> \o YamlItems(Tail(tags))

\* serde_yaml::to_string(metadata)
to_yaml(m) ==
  K_title \o COLON \o YamlScalar(m.title) \o <<NL>>
  \o K_status \o COLON \o StatusName[m.status] \o <<NL>>
  \o K_priority \o COLON \o PriorityName[m.priority] \o <<NL>>
  \o (IF m.milestone = <<>> THEN <<>>
      ELSE K_milestone \o COLON \o YamlScalar(m.milestone[1]) \o <<NL>>)
  \o (IF m.tags = <<>> THEN K_tags \o COLON \o EMPTY_LIST \o <<NL>>
      ELSE K_tags \o <<":", NL>> \o YamlItems(m.tags))
  \o (IF m.updated = <<>> THEN <<>>
      ELSE K_updated \o COLON \o m.updated[1] \o <<NL>>)

\* a timestamp chrono reads back: the model's clock values "T0".."T9"
IsStamp(t) == Len(t) = 2 /\ t[1] = "T" /\ t[2] \in {"0", "1", "2", "3", "4", "5", "6", "7", "8", "9"}

\* the lines of a block that carry data: blank lines and "#" comment lines are skipped
RECURSIVE DataLines(_)
DataLines(ls) ==
  IF ls = <<>> THEN <<>>
  ELSE LET t == TrimStart(Head(ls)) IN
       IF t = <<>> \/ t[1] = "#" THEN DataLines(Tail(ls))
       ELSE <<TrimEnd(Head(ls))>> \o DataLines(Tail(ls))

\* the key of a "key: value" or "key:" line, as an Option
LineKey(line) ==
  LET c == Find(line, COLON)
  IN IF c > 0 THEN <<Sub(line, 0, c)>>
     ELSE IF Len(line) > 1 /\ line[Len(line)] = ":" THEN <<Sub(line, 0, Len(line) - 1)>>
     ELSE <<>>

LineValue(line) ==
  LET c == Find(line, COLON)
  IN IF c > 0 THEN Trim(From(line, c + 2)) ELSE <<>>

\* the mapping read so far: fields maps each key seen to its value text,
\* items is the block sequence under the last key, err marks a syntax error
RECURSIVE YamlMap(_, _)
YamlMap(ls, acc) ==
  IF ls = <<>> \/ acc.err THEN acc
  ELSE LET line == Head(ls) IN
    IF StartsWith(line, ITEM)
      THEN IF acc.last = K_tags /\ acc.fields[K_tags] = <<>>
           THEN YamlMap(Tail(ls),
                  [acc EXCEPT !.items = Append(acc.items, YamlUnscalar(From(line, 2)))])
           ELSE [acc EXCEPT !.err = TRUE]
    ELSE LET key == LineKey(line) IN
      IF key = <<>> \/ line[1] \in Whitespace THEN [acc EXCEPT !.err = TRUE]
      ELSE IF key[1] \in DOMAIN acc.fields THEN [acc EXCEPT !.err = TRUE]
      ELSE YamlMap(Tail(ls),
             [acc EXCEPT !.fields = [k \in DOMAIN acc.fields \union {key[1]} |->
                                       IF k = key[1] THEN LineValue(line) ELSE acc.fields[k]],
                         !.last = key[1]])

EnumOf(names, text) == {e \in DOMAIN names : names[e] = text}

\* the IssueMetadata a mapping deserializes to, as an Option (<<>> is the decode error)
Deserialize(acc) ==
  LET f == acc.fields
      has(k) == k \in DOMAIN f
      st == IF has(K_status) THEN EnumOf(StatusName, f[K_status]) ELSE {}
      pr == IF has(K_priority) THEN EnumOf(PriorityName, f[K_priority]) ELSE {}
      tagsOk == ~has(K_tags) \/ f[K_tags] = <<>> \/ f[K_tags] = EMPTY_LIST
      updOk == ~has(K_updated) \/ IsStamp(f[K_updated])
  IN IF acc.err \/ ~has(K_title) \/ st = {} \/ pr = {} \/ ~tagsOk \/ ~updOk THEN <<>>
     ELSE <<IssueMetadata(
              YamlUnscalar(f[K_title]),
              CHOOSE e \in st : TRUE,
              CHOOSE e \in pr : TRUE,
              IF has(K_milestone) THEN <<YamlUnscalar(f[K_milestone])>> ELSE <<>>,
              IF has(K_tags) /\ f[K_tags] = <<>> THEN acc.items ELSE <<>>,
              IF has(K_updated) THEN <<f[K_updated]>> ELSE <<>>)>>

\* serde_yaml::from_str::<IssueMetadata>(text), as an Option
from_yaml(text) ==
  Deserialize(YamlMap(DataLines(Lines(text)),
                      [fields |-> <<>>, items |-> <<>>, last |-> <<>>, err |-> FALSE]))

(***************************************************************************)
(* Frontmatter codec (parser.rs)                                           *)
(***************************************************************************)
Ok(metadata, body) == [ok |-> TRUE, metadata |-> metadata, body |-> body]

Err(kind) == [ok |-> FALSE, error |-> kind]

\* parse_frontmatter ending the header at the next "---" wherever it stands
parse_frontmatter_AnyDelimiter(text) ==
  LET result(metadata, body_text) ==
        IF metadata = <<>> THEN Err("HeaderDecodeError") ELSE Ok(metadata[1], body_text)
      split(rest, end_pos) ==
        IF end_pos < 0 THEN Err("UnterminatedHeader")
        ELSE result(from_yaml(Sub(rest, 0, end_pos)), Trim(From(rest, end_pos + 3)))
      header(rest) == split(rest, Find(rest, DELIM))
      open(content) ==
        IF ~StartsWith(content, DELIM) THEN Err("MissingDelimiter")
        ELSE header(From(content, 3))
  IN open(Trim(text))

\* content = text.trim(); rest = &content[3..]; end_pos = rest.find("\n---");
\* frontmatter = &rest[..end_pos]; body_text = rest[end_pos + 4..].trim()
parse_frontmatter(text) ==
  LET result(metadata, body_text) ==
        IF metadata = <<>> THEN Err("HeaderDecodeError") ELSE Ok(metadata[1], body_text)
      split(rest, end_pos) ==
        IF end_pos < 0 THEN Err("UnterminatedHeader")
        ELSE result(from_yaml(Sub(rest, 0, end_pos)), Trim(From(rest, end_pos + 4)))
      header(rest) == split(rest, Find(rest, NL_DELIM))
      open(content) ==
        IF ~StartsWith(content, DELIM) THEN Err("MissingDelimiter")
        ELSE header(From(content, 3))
  IN open(Trim(text))

\* the text write_with_frontmatter stores in the file
\* write_with_frontmatter writing the body without its comment section
write_with_frontmatter_WithoutComments(metadata, body) ==
  DELIM \o <<NL>> \o to_yaml(metadata) \o DELIM \o <<NL, NL>> \o BodyWithoutComments(body)

write_with_frontmatter(metadata, body) ==
  DELIM \o <<NL>> \o to_yaml(metadata) \o DELIM \o <<NL, NL>> \o Trim(body)

(***************************************************************************)
(* Status::from_str and Priority::from_str (models.rs)                     *)
(***************************************************************************)
UpperToLower ==
  [A |-> "a", B |-> "b", C |-> "c", D |-> "d", E |-> "e", F |-> "f", G |-> "g",
   H |-> "h", I |-> "i", J |-> "j", K |-> "k", L |-> "l", M |-> "m", N |-> "n",
   O |-> "o", P |-> "p", Q |-> "q", R |-> "r", S |-> "s", T |-> "t", U |-> "u",
   V |-> "v", W |-> "w", X |-> "x", Y |-> "y", Z |-> "z"]

\* str::to_lowercase
to_lowercase(s) ==
  [i \in 1..Len(s) |-> IF s[i] \in DOMAIN UpperToLower THEN UpperToLower[s[i]] ELSE s[i]]

\* Status::from_str, as an Option
StatusFromStr(s) ==
  LET l == to_lowercase(s)
  IN IF l = <<"b", "a", "c", "k", "l", "o", "g">> THEN <<"Backlog">>
     ELSE IF l = <<"t", "o", "d", "o">> THEN <<"Todo">>
     ELSE IF l = <<"i", "n", "-", "p", "r", "o", "g", "r", "e", "s", "s">> \/ l = <<"i", "n", "p", "r", "o", "g", "r", "e", "s", "s">> THEN <<"InProgress">>
     ELSE IF l = <<"c", "o", "m", "p", "l", "e", "t", "e", "d">> \/ l = <<"d", "o", "n", "e">> THEN <<"Completed">>
     ELSE IF l = <<"c", "a", "n", "c", "e", "l", "l", "e", "d">> \/ l = <<"c", "a", "n", "c", "e", "l", "e", "d">> THEN <<"Cancelled">>
     ELSE <<>>

\* Priority::from_str, as an Option
PriorityFromStr(s) ==
  LET l == to_lowercase(s)
  IN IF l = <<"l", "o", "w">> THEN <<"Low">>
     ELSE IF l = <<"m", "e", "d", "i", "u", "m">> THEN <<"Medium">>
     ELSE IF l = <<"h", "i", "g", "h">> THEN <<"High">>
     ELSE IF l = <<"u", "r", "g", "e", "n", "t">> THEN <<"Urgent">>
     ELSE <<>>

\* str::split(sep) for a one-character separator
RECURSIVE Split(_, _)
Split(s, sep) ==
  LET n == Find(s, <<sep>>)
  IN IF n < 0 THEN <<s>> ELSE <<Sub(s, 0, n)>> \o Split(From(s, n + 1), sep)

\* t.split(',').map(|s| s.trim().to_string()).collect()
TagList(t) == LET parts == Split(t, ",") IN [i \in 1..Len(parts) |-> Trim(parts[i])]

Digits == <<"0", "1", "2", "3", "4", "5", "6", "7", "8", "9">>

\* Utc::now() at clock value n, as chrono writes and reads it
Stamp(n) == <<"T", Digits[n + 1]>>

(***************************************************************************)
(* The commands that rewrite a document.  Each is the function from the    *)
(* file's text (and the command's inputs) to the command's result:         *)
(* [ok, file]: whether the command returned Ok, and the file's text when  *)
(* it returns.  The document is one issue file that path resolution has    *)
(* found.                                                                  *)
(***************************************************************************)
Written(text) == [ok |-> TRUE, file |-> text]

Failed(text) == [ok |-> FALSE, file |-> text]

\* comment.rs: the split of file_content into frontmatter and body, as an Option
SplitDocument(file_content) ==
  LET end_pos == IF Len(file_content) < 3 THEN -1
                 ELSE Find(From(file_content, 3), NL_DELIM_NL)
      body_start == end_pos + 7
  IN IF end_pos < 0 THEN <<>>
     ELSE <<[frontmatter |-> Sub(file_content, 0, body_start),
             body |-> Trim(From(file_content, body_start))]>>

\* comment::add from "Read the file" on; new_comment is Comment::new(author, content)
comment_add(file_content, author, timestamp, content) ==
  LET updated_body(body_text) ==
        write_comments(body_text,
                       Append(read_comments(body_text), Comment(author, timestamp, content)))
      add(doc) ==
        IF doc = <<>> THEN Failed(file_content)
        ELSE Written(Trim(doc[1].frontmatter) \o <<NL, NL>> \o updated_body(doc[1].body))
  IN add(SplitDocument(file_content))

\* comment::list from "Read the file" on: the comments it prints, as an Option
comment_list(file_content) ==
  LET list(doc) == IF doc = <<>> THEN <<>> ELSE <<read_comments(doc[1].body)>>
  IN list(SplitDocument(file_content))

\* edit_issue writing the file after each field it sets
edit_issue_WriteEachField(file_content, status, priority, milestone, tags, now) ==
  LET changed == status # <<>> \/ priority # <<>> \/ milestone # <<>> \/ tags # <<>>
      edit(issue, st, pr) ==
        IF ~issue.ok THEN Failed(file_content)
        ELSE IF status # <<>> /\ st = <<>> THEN Failed(file_content)
        ELSE IF priority # <<>> /\ pr = <<>>
          THEN Failed(IF status = <<>> THEN file_content
                      ELSE write_with_frontmatter([issue.metadata EXCEPT !.status = st[1]],
                                                  issue.body))
        ELSE IF ~changed THEN Failed(file_content)
        ELSE Written(write_with_frontmatter(
               [issue.metadata EXCEPT
                  !.status = IF status = <<>> THEN @ ELSE st[1],
                  !.priority = IF priority = <<>> THEN @ ELSE pr[1],
                  !.milestone = IF milestone = <<>> THEN @
                                ELSE IF milestone[1] = <<>> THEN <<>> ELSE milestone,
                  !.tags = IF tags = <<>> THEN @ ELSE TagList(tags[1]),
                  !.updated = <<now>>],
               issue.body))
  IN edit(parse_frontmatter(file_content),
          IF status = <<>> THEN <<>> ELSE StatusFromStr(status[1]),
          IF priority = <<>> THEN <<>> ELSE PriorityFromStr(priority[1]))

\* edit_issue once the issue file is found by list_issues (which skips a
\* file read_issue cannot parse); an argument is an Option
edit_issue(file_content, status, priority, milestone, tags, now) ==
  LET changed == status # <<>> \/ priority # <<>> \/ milestone # <<>> \/ tags # <<>>
      edit(issue, st, pr) ==
        IF ~issue.ok THEN Failed(file_content)
        ELSE IF status # <<>> /\ st = <<>> THEN Failed(file_content)
        ELSE IF priority # <<>> /\ pr = <<>> THEN Failed(file_content)
        ELSE IF ~changed THEN Failed(file_content)
        ELSE Written(write_with_frontmatter(
               [issue.metadata EXCEPT
                  !.status = IF status = <<>> THEN @ ELSE st[1],
                  !.priority = IF priority = <<>> THEN @ ELSE pr[1],
                  !.milestone = IF milestone = <<>> THEN @
                                ELSE IF milestone[1] = <<>> THEN <<>> ELSE milestone,
                  !.tags = IF tags = <<>> THEN @ ELSE TagList(tags[1]),
                  !.updated = <<now>>],
               issue.body))
  IN edit(parse_frontmatter(file_content),
          IF status = <<>> THEN <<>> ELSE StatusFromStr(status[1]),
          IF priority = <<>> THEN <<>> ELSE PriorityFromStr(priority[1]))

\* webui.rs update_issue_description once list_issues has found the issue
update_issue_description(file_content, content) ==
  LET update(issue) ==
        IF ~issue.ok THEN Failed(file_content)
        ELSE Written(write_with_frontmatter(issue.metadata, content))
  IN update(parse_frontmatter(file_content))

\* webui.rs update_issue_handler: edit_issue, then the description if one is given
update_issue_handler(file_content, payload, now) ==
  LET respond(edited, described) ==
        IF described.ok THEN described ELSE Failed(edited.file)
      describe(edited) ==
        IF ~edited.ok THEN edited
        ELSE IF payload.description = <<>> THEN edited
        ELSE respond(edited, update_issue_description(edited.file, payload.description[1]))
  IN describe(edit_issue(file_content, payload.status, payload.priority,
                         payload.milestone, payload.tags, now))

(***************************************************************************)
(* Bounds and input sets                                                   *)
(***************************************************************************)
\* commands run against the document
MaxClock == 2
\* pieces a comment-codec input body is made of
MaxPieces == 3
\* comments in a comment-codec input list
MaxComments == 2
\* pieces a text as found in a file is made of
MaxRawPieces == 4

RECURSIVE SeqsUpTo(_, _)
\* the sequences over S of length at most n
SeqsUpTo(S, n) ==
  IF n = 0 THEN {<<>>}
  ELSE LET shorter == SeqsUpTo(S, n - 1)
       IN shorter \union {Append(q, x) : q \in {r \in shorter : Len(r) = n - 1}, x \in S}

\* the texts made of at most n pieces of P
Texts(P, n) == {Concat(q) : q \in SeqsUpTo(P, n)}

NoValue == "-"

\* the author get_author() resolves, and the comments the codec is given
Authors == {<<"a", "l">>}

Contents == {<<"h", "i">>, <<"#", "#", " ", "h">>, <<"#", "#", "#", " ", "[", "x">>}

Comments == {Comment(a, Stamp(0), c) : a \in Authors, c \in Contents}

CommentLists == SeqsUpTo(Comments, MaxComments)

\* what a body is made of: text, blank space, the heading with and without its
\* newline, a stored entry, a later section
BodyPieces ==
  {<<"x">>, <<NL>>, <<" ", " ">>, HEADING, HEADING_NL, <<"#", "#", "#", " ", "[", "T", "0", "]", " ", "-", " ", "a", "l", "\n", "o", "l", "d", "\n">>, <<"#", "#", " ", "O", "\n", "y">>}

Bodies(n) == Texts(BodyPieces, n)

\* and what a section damaged by hand may hold: a marker line without "]", one
\* without " - ", one with nothing inside the brackets and nothing after the dash
RawBodyPieces ==
  BodyPieces \union {<<"#", "#", "#", " ", "[", "x", "\n">>, <<"#", "#", "#", " ", "[", "T", "1", "]", "b", "o", "\n", "n", "e", "w", "\n">>, <<"#", "#", "#", " ", "[", "]", " ", "-", " ", "\n">>,
                     <<"#", "#", " ", "N", "\n", "#", "#", "#", " ", "[", "T", "2", "]", " ", "-", " ", "a", "l", "\n", "z", "\n">>}

RawBodies(n) == Texts(RawBodyPieces, n)

(***************************************************************************)
(* State.  file, clock, last, initial, added, plain: the document and the  *)
(* commands run on it.  body, comments, encoded, decoded, meta, raw,       *)
(* parsed, step: the inputs and results of the codec operations.  uuids:   *)
(* the tokens the id generator yields.  workflow, events: the comment add  *)
(* processes running against the document and the order of their file      *)
(* accesses.  fs, made, outcome: the directories of the workspace, what    *)
(* the create commands wrote, and the last command's result.               *)
(***************************************************************************)
VARIABLES file, clock, last, initial, added, plain,
          body, comments, encoded, decoded, meta, raw, parsed, step,
          uuids, workflow, events, fs, made, outcome

vars == <<file, clock, last, initial, added, plain,
          body, comments, encoded, decoded, meta, raw, parsed, step,
          uuids, workflow, events, fs, made, outcome>>

docVars == <<file, clock, last, initial, added, plain>>

codecVars == <<body, comments, encoded, decoded, meta, raw, parsed, step>>

\* the variables the document commands and the codec operations leave alone
otherVars == <<uuids, workflow, events, fs, made, outcome>>

raceVars == <<workflow, events>>

storeVars == <<fs, made, outcome>>

NoDocument ==
  /\ file = NoValue /\ clock = 0 /\ last = NoValue
  /\ initial = NoValue /\ added = <<>> /\ plain = TRUE

NoCodec ==
  /\ body = NoValue /\ comments = NoValue /\ encoded = NoValue /\ decoded = NoValue
  /\ meta = NoValue /\ raw = NoValue /\ parsed = NoValue /\ step = NoValue

NoUuids == uuids = NoValue

NoRace == workflow = NoValue /\ events = <<>>

NoStore == fs = NoValue /\ made = <<>> /\ outcome = NoValue

NoOthers == NoUuids /\ NoRace /\ NoStore

(***************************************************************************)
(* write_comments followed by read_comments                                *)
(***************************************************************************)
InitComments ==
  /\ NoDocument /\ NoOthers
  /\ body \in Bodies(MaxPieces)
  /\ comments \in CommentLists
  /\ encoded = NoValue /\ decoded = NoValue
  /\ meta = NoValue /\ raw = NoValue /\ parsed = NoValue
  /\ step = "input"

WriteComments ==
  /\ step = "input"
  /\ encoded' = write_comments(body, comments)
  /\ step' = "written"
  /\ UNCHANGED <<docVars, otherVars, body, comments, decoded, meta, raw, parsed>>

ReadComments ==
  /\ step = "written"
  /\ decoded' = read_comments(encoded)
  /\ step' = "read"
  /\ UNCHANGED <<docVars, otherVars, body, comments, encoded, meta, raw, parsed>>

NextComments == WriteComments \/ ReadComments

SpecComments == InitComments /\ [][NextComments]_vars

(***************************************************************************)
(* read_comments on a body as found in a file                              *)
(***************************************************************************)
InitRead ==
  /\ NoDocument /\ NoOthers
  /\ body \in RawBodies(MaxRawPieces)
  /\ comments = NoValue /\ encoded = NoValue /\ decoded = NoValue
  /\ meta = NoValue /\ raw = NoValue /\ parsed = NoValue
  /\ step = "input"

ReadBody ==
  /\ step = "input"
  /\ decoded' = IF read_comments_panics(body) THEN NoValue ELSE read_comments(body)
  /\ step' = IF read_comments_panics(body) THEN "panic" ELSE "read"
  /\ UNCHANGED <<docVars, otherVars, body, comments, encoded, meta, raw, parsed>>

NextRead == ReadBody

SpecRead == InitRead /\ [][NextRead]_vars

(***************************************************************************)
(* Properties of the comment log codec                                     *)
(***************************************************************************)
\* equality of comment lists under (author, timestamp, trimmed content), in order
SameComments(xs, ys) ==
  /\ Len(xs) = Len(ys)
  /\ \A i \in 1..Len(xs) :
       /\ xs[i].author = ys[i].author
       /\ xs[i].timestamp = ys[i].timestamp
       /\ Trim(xs[i].content) = Trim(ys[i].content)

\* no line of the content starts with the entry-header marker "### ["
NoMarkerLine(content) ==
  \A i \in 1..Len(Lines(content)) : ~StartsWith(Lines(content)[i], MARKER)

\* C2: for every body b and every comment list C, read_comments(write_comments(b, C))
\* equals C under (author, timestamp, trimmed content) equality, in the same order.
C2_CommentRoundTrip ==
  step = "read" => SameComments(decoded, comments)

\* C3: when no content of C has a line starting with "### [", write_comments followed
\* by read_comments returns every entry of C whole: none split, truncated or dropped.
C3_LosslessWithoutMarker ==
  (step = "read" /\ \A i \in 1..Len(comments) : NoMarkerLine(comments[i].content))
    => SameComments(decoded, comments)

\* the offset of the "## Comments" heading line read_comments scans from, or -1
HeadingOffset(b) ==
  IF Find(b, NL_HEADING_NL) >= 0 THEN Find(b, NL_HEADING_NL) + 1
  ELSE IF StartsWith(b, HEADING_NL) THEN 0
  ELSE -1

\* the text of a body from the first "## " line after the heading line on
RECURSIVE FromSectionLine(_)
FromSectionLine(t) ==
  IF t = <<>> THEN <<>>
  ELSE IF StartsWith(t, SECTION) /\ ~StartsWith(t, HEADING_NL) THEN t
  ELSE LET n == Find(t, <<NL>>) IN IF n < 0 THEN <<>> ELSE FromSectionLine(From(t, n + 1))

LaterSection(b) ==
  IF HeadingOffset(b) < 0 THEN <<>>
  ELSE FromSectionLine(From(b, HeadingOffset(b) + Len(HEADING_NL)))

\* C6: write_comments(b, C) keeps the body text outside the comment subsection: the
\* text before the heading starts the result, and the text of a later "## " section
\* that follows the comment entries still appears in it.
C6_TextOutsideSectionKept ==
  (step = "written" /\ HeadingOffset(body) >= 0)
    => /\ StartsWith(encoded, TrimEnd(Sub(body, 0, HeadingOffset(body))))
       /\ Contains(encoded, TrimEnd(LaterSection(body)))

\* C8, as stated: write_comments(b, []) never contains the heading "## Comments" and
\* equals b trimmed.
C8_EmptyCollapse ==
  (step = "written" /\ comments = <<>>)
    => /\ ~Contains(encoded, HEADING)
       /\ encoded = Trim(body)

\* C8, amended: write_comments(b, []) contains no "## Comments" heading line preceded
\* by a newline, and equals the text of b before the comment section read_comments
\* finds (all of b when it finds none) with trailing whitespace trimmed; leading
\* whitespace is kept.
C8_EmptyCollapseAmended ==
  (step = "written" /\ comments = <<>>)
    => /\ ~Contains(encoded, NL_HEADING_NL)
       /\ encoded = TrimEnd(IF SectionText(body) = <<>> THEN body
                            ELSE Sub(body, 0, HeadingOffset(body)))

\* an empty list was written to a body that has a comment section and leading whitespace
C8_Witness ==
  /\ step = "written" /\ comments = <<>>
  /\ SectionText(body) # <<>>
  /\ body # <<>> /\ body[1] \in Whitespace
  /\ encoded # <<>>

\* the heading "## Comments" at the start of a line of b
HeadingAtLineStart(b) == StartsWith(b, HEADING) \/ Contains(b, <<NL>> \o HEADING)

\* C9: for every body in which the heading "## Comments" occurs neither preceded by a
\* newline nor at the very start, read_comments returns the empty list.
C9_MissingSectionEmpty ==
  (step = "read" /\ ~HeadingAtLineStart(body)) => decoded = <<>>

\* read_comments has read a body whose heading is in the middle of a line, with an
\* entry marker after it
C9_Witness ==
  /\ step = "read"
  /\ ~HeadingAtLineStart(body)
  /\ Contains(body, HEADING_NL \o MARKER)
  /\ decoded = <<>>

\* the lines read_comments scans: those of the text after the heading
SectionLines(b) == IF SectionText(b) = <<>> THEN <<>> ELSE Lines(SectionText(b)[1])

\* the index of the first line starting with "## ", or 0
FirstSectionLine(ls) ==
  LET hits == {i \in 1..Len(ls) : StartsWith(ls[i], SECTION)}
  IN IF hits = {} THEN 0 ELSE CHOOSE i \in hits : \A j \in hits : i <= j

\* the marker lines before line k
MarkersBefore(ls, k) == {i \in 1..(k - 1) : StartsWith(ls[i], MARKER)}

\* the comment was made from the lines before line k: its header from a marker line,
\* each line of its content from one of the lines, up to surrounding whitespace
MadeBefore(c, ls, k) ==
  /\ \E m \in MarkersBefore(ls, k) :
       /\ ParseMarker(ls[m]) # <<>>
       /\ ParseMarker(ls[m])[1].timestamp = c.timestamp
       /\ ParseMarker(ls[m])[1].author = c.author
  /\ \A j \in 1..Len(Lines(c.content)) :
       \E m \in 1..(k - 1) : Trim(ls[m]) = Trim(Lines(c.content)[j])

\* C11: for a body with "## Comments" followed by entries and then a later line
\* starting with "## ", read_comments stops at that line: every returned comment is
\* made from the lines before it, there are no more comments than marker lines
\* before it, and the result is that of scanning the lines before it alone.
C11_SectionBoundary ==
  (/\ step = "read"
   /\ FirstSectionLine(SectionLines(body)) > 0
   /\ MarkersBefore(SectionLines(body), FirstSectionLine(SectionLines(body))) # {})
    => LET ls == SectionLines(body)
           k == FirstSectionLine(ls)
       IN /\ Len(decoded) <= Cardinality(MarkersBefore(ls, k))
          /\ \A i \in 1..Len(decoded) : MadeBefore(decoded[i], ls, k)
          /\ decoded = ScanLines(SubSeq(ls, 1, k - 1), <<>>, <<>>, <<>>)

\* read_comments has read a section with an entry, then a "## " line, then a marker
\* line and text after it, and returned the entry
C11_Witness ==
  /\ step = "read"
  /\ LET ls == SectionLines(body)
         k == FirstSectionLine(ls)
     IN /\ k > 0
        /\ MarkersBefore(ls, k) # {}
        /\ \E m \in (k + 1)..Len(ls) : StartsWith(ls[m], MARKER) /\ ParseMarker(ls[m]) # <<>>
        /\ \E m \in (k + 1)..Len(ls) : ls[m] = <<"z">>
  /\ Len(decoded) = 1
  /\ decoded[1].content = <<"o", "l", "d">>

\* C13: read_comments is total: for every body it returns a list of comments and
\* never panics, also when a marker line lacks the closing "]" or the " - " separator.
C13_ReadCommentsTotal ==
  /\ step # "panic"
  /\ step = "read" =>
       \A i \in 1..Len(decoded) : DOMAIN decoded[i] = {"author", "timestamp", "content"}

\* read_comments has read a section with a marker line without "]", one without
\* " - " (its author reads as Unknown) and one with empty timestamp and author
C13_Witness ==
  /\ step = "read"
  /\ \E m \in 1..Len(SectionLines(body)) :
       StartsWith(SectionLines(body)[m], MARKER) /\ ~Contains(SectionLines(body)[m], <<"]">>)
  /\ \E i \in 1..Len(decoded) : decoded[i].author = UNKNOWN /\ decoded[i].content = <<"n", "e", "w">>
  /\ \E i \in 1..Len(decoded) : decoded[i].author = <<>> /\ decoded[i].timestamp = <<>>

(***************************************************************************)
(* write_comments followed by read_comments, on comments with their ids    *)
(***************************************************************************)
\* ids held by the comments given to write_comments
StoredIds == {<<"u", "1">>, <<"u", "2">>}

IdComments == {IdComment(id, c) : id \in StoredIds, c \in Comments}

IdCommentLists == SeqsUpTo(IdComments, MaxComments)

\* bodies the comments are written to
IdBodies == {<<>>, <<"d">>, <<"d", "\n", "\n", "#", "#", " ", "C", "o", "m", "m", "e", "n", "t", "s", "\n", "\n", "#", "#", "#", " ", "[", "T", "0", "]", " ", "-", " ", "b", "o", "\n", "o", "l", "d", "\n">>}

\* what uuid::Uuid::new_v4() yields call after call: two runs of the generator
UuidStreams ==
  {[i \in 1..(MaxComments + 2) |-> <<"v", Digits[i + s]>>] : s \in {0, 5}}

InitIds ==
  /\ NoDocument /\ NoRace /\ NoStore
  /\ body \in IdBodies
  /\ comments \in IdCommentLists
  /\ uuids \in UuidStreams
  /\ encoded = NoValue /\ decoded = NoValue
  /\ meta = NoValue /\ raw = NoValue /\ parsed = NoValue
  /\ step = "input"

WriteIdComments ==
  /\ step = "input"
  /\ encoded' = write_comments(body, comments)
  /\ step' = "written"
  /\ UNCHANGED <<docVars, body, comments, decoded, meta, raw, parsed, uuids, raceVars, storeVars>>

ReadIdComments ==
  /\ step = "written"
  /\ decoded' = read_comments_ids(encoded, uuids)
  /\ step' = "read"
  /\ UNCHANGED <<docVars, body, comments, encoded, meta, raw, parsed, uuids, raceVars, storeVars>>

NextIds == WriteIdComments \/ ReadIdComments

SpecIds == InitIds /\ [][NextIds]_vars

\* the comment list with its ids replaced by those of f
Relabelled(cs, f) == [i \in 1..Len(cs) |-> [cs[i] EXCEPT !.id = f[i]]]

\* C14: comment ids are not persisted: write_comments gives the same text for every
\* list that differs from the one written only in its ids, the text holds none of
\* the ids, and read_comments gives the i-th entry the i-th id its generator yields,
\* whatever the stored text.
C14_IdsNotPersisted ==
  /\ step \in {"written", "read"} =>
       /\ \A f \in [1..Len(comments) -> StoredIds] :
            write_comments(body, Relabelled(comments, f)) = encoded
       /\ \A i \in 1..Len(comments) : ~Contains(encoded, comments[i].id)
  /\ step = "read" =>
       \A i \in 1..Len(decoded) : decoded[i].id = uuids[i]

\* two comments with different ids were written and read back with the generator's ids
C14_Witness ==
  /\ step = "read"
  /\ Len(comments) = 2 /\ comments[1].id # comments[2].id
  /\ Len(decoded) = 2
  /\ decoded[1].id = uuids[1] /\ decoded[2].id = uuids[2]
  /\ decoded[1].id # comments[1].id
  /\ decoded[1].content = comments[1].content

(***************************************************************************)
(* write_with_frontmatter followed by parse_frontmatter, and                *)
(* parse_frontmatter on a text as found in a file                          *)
(***************************************************************************)
Titles == {<<"x">>, <<"-", "-", "-">>, <<"a", ":", " ", "b">>}

Metas ==
  {IssueMetadata(t, st, "Low", m, tg, u) :
     t \in Titles, st \in {"Todo", "InProgress"}, m \in {<<>>, <<<<"m", "1">>>>},
     tg \in {<<>>, <<<<"a">>, <<"-", "-", "-">>>>}, u \in {<<>>, <<Stamp(0)>>}}

\* what a description is made of: text, blank space, a horizontal rule
TextPieces == {<<"x">>, <<NL>>, <<" ">>, DELIM}

FrontmatterBodies(n) == Texts(TextPieces, n)

\* a header block serde_yaml decodes
ValidBlock == <<"t", "i", "t", "l", "e", ":", " ", "x", "\n", "s", "t", "a", "t", "u", "s", ":", " ", "t", "o", "d", "o", "\n", "p", "r", "i", "o", "r", "i", "t", "y", ":", " ", "l", "o", "w", "\n">>

\* what a file's text is made of: the delimiter with and without its newline, a
\* header block that decodes, one that does not, a hyphen, text, a newline
RawPieces == {DELIM \o <<NL>>, DELIM, ValidBlock, <<"k", ":", " ", "1", "\n">>, <<"-">>, <<"x">>, <<NL>>,
              <<"-", "-", "-", "x", "\n">>}

RawTexts(n) == Texts(RawPieces, n)

InitFrontmatter ==
  /\ NoDocument /\ NoOthers
  /\ comments = NoValue /\ encoded = NoValue /\ decoded = NoValue
  /\ parsed = NoValue
  /\ \/ /\ meta \in Metas
        /\ body \in FrontmatterBodies(MaxPieces)
        /\ raw = NoValue
        /\ step = "input"
     \/ /\ meta = NoValue
        /\ body = NoValue
        /\ raw \in RawTexts(MaxRawPieces)
        /\ step = "text"

WriteWithFrontmatter ==
  /\ step = "input"
  /\ raw' = write_with_frontmatter(meta, body)
  /\ step' = "written"
  /\ UNCHANGED <<docVars, otherVars, body, comments, encoded, decoded, meta, parsed>>

ParseFrontmatter ==
  /\ step \in {"written", "text"}
  /\ parsed' = parse_frontmatter(raw)
  /\ step' = IF step = "written" THEN "roundtrip" ELSE "parsed"
  /\ UNCHANGED <<docVars, otherVars, body, comments, encoded, decoded, meta, raw>>

NextFrontmatter == WriteWithFrontmatter \/ ParseFrontmatter

SpecFrontmatter == InitFrontmatter /\ [][NextFrontmatter]_vars

(***************************************************************************)
(* Properties of the frontmatter codec                                     *)
(***************************************************************************)
\* C1: for every valid header h and every trimmed, non-empty body b, parse_frontmatter
\* of the text write_with_frontmatter produces for (h, b) returns exactly (h, b).
C1_FrontmatterRoundTrip ==
  (step = "roundtrip" /\ body # <<>> /\ body = Trim(body)) => parsed = Ok(meta, body)

\* a round trip of a header holding "---" in a quoted title, with a body that holds a
\* horizontal rule line
C1_Witness ==
  /\ step = "roundtrip"
  /\ body # <<>> /\ body = Trim(body)
  /\ Contains(body, NL_DELIM)
  /\ meta.title = DELIM /\ meta.tags # <<>>
  /\ parsed = Ok(meta, body)

\* the lines of a trimmed text after its first line
LaterLines(content) == Tail(Lines(content))

HasDelimiterLine(ls) == \E i \in 1..Len(ls) : ls[i] = DELIM

\* the lines between the opening line and the first later line equal to "---"
RECURSIVE BlockLines(_)
BlockLines(ls) ==
  IF ls = <<>> \/ Head(ls) = DELIM THEN <<>> ELSE <<Head(ls)>> \o BlockLines(Tail(ls))

\* C10: parse_frontmatter returns the missing-delimiter error for every text whose
\* trimmed form does not begin with "---", the unterminated-header error for every
\* text that opens with the delimiter but has no later delimiter line, the
\* header-decode error when the block between the delimiter lines cannot be decoded,
\* and in none of these cases a (header, body) result.
C10_MalformedFailsClosed ==
  step = "parsed" =>
    LET content == Trim(raw)
        later == LaterLines(content)
    IN /\ ~StartsWith(content, DELIM) => parsed = Err("MissingDelimiter")
       /\ (StartsWith(content, DELIM) /\ ~HasDelimiterLine(later))
            => parsed = Err("UnterminatedHeader")
       /\ (/\ StartsWith(content, DELIM) /\ HasDelimiterLine(later)
           /\ Lines(content)[1] = DELIM
           /\ from_yaml(JoinLines(BlockLines(later))) = <<>>)
            => parsed = Err("HeaderDecodeError")

\* the lines after the first line equal to "---"
RECURSIVE AfterDelimiterLine(_)
AfterDelimiterLine(ls) ==
  IF ls = <<>> THEN <<>>
  ELSE IF Head(ls) = DELIM THEN Tail(ls)
  ELSE AfterDelimiterLine(Tail(ls))

\* C12: parse_frontmatter ends the header block at the next line equal to exactly
\* "---": for a text whose first line is "---" and that has a later line equal to
\* "---", the header is decoded from the lines between the two (a line such as
\* "----" or "---x" among them is part of the block), and the body is the text
\* after the delimiter line.
C12_ExactDelimiterLine ==
  (/\ step = "parsed"
   /\ Lines(Trim(raw)) # <<>>
   /\ Lines(Trim(raw))[1] = DELIM
   /\ HasDelimiterLine(LaterLines(Trim(raw))))
    => LET later == LaterLines(Trim(raw))
           header == from_yaml(JoinLines(BlockLines(later)))
       IN IF header = <<>> THEN parsed = Err("HeaderDecodeError")
          ELSE parsed = Ok(header[1], Trim(JoinLines(AfterDelimiterLine(later))))

(***************************************************************************)
(* parse_frontmatter and the comment commands on the same text             *)
(***************************************************************************)
InitSplit ==
  /\ NoDocument /\ NoOthers
  /\ raw \in RawTexts(MaxRawPieces)
  /\ body = NoValue /\ comments = NoValue /\ encoded = NoValue /\ decoded = NoValue
  /\ meta = NoValue /\ parsed = NoValue
  /\ step = "text"

\* the body the comment commands pass to read_comments, if they get that far
PassedBody(file_content) ==
  LET passed(doc) == IF doc = <<>> THEN NoValue ELSE doc[1].body
  IN passed(SplitDocument(file_content))

ParseText ==
  /\ step = "text"
  /\ parsed' = parse_frontmatter(raw)
  /\ step' = "parsed"
  /\ UNCHANGED <<docVars, otherVars, body, comments, encoded, decoded, meta, raw>>

\* comment list on a file holding the text
ListText ==
  /\ step = "parsed"
  /\ decoded' = comment_list(raw)
  /\ body' = PassedBody(raw)
  /\ step' = "listed"
  /\ UNCHANGED <<docVars, otherVars, comments, encoded, meta, raw, parsed>>

\* comment add on a file holding the text
AddText ==
  /\ step = "parsed"
  /\ \E author \in Authors, content \in Contents :
       encoded' = comment_add(raw, author, Stamp(1), content)
  /\ body' = PassedBody(raw)
  /\ step' = "added"
  /\ UNCHANGED <<docVars, otherVars, comments, decoded, meta, raw, parsed>>

NextSplit == ParseText \/ ListText \/ AddText

SpecSplit == InitSplit /\ [][NextSplit]_vars

\* parse_frontmatter found a delimited header: a result, or the header-decode error
DelimitedHeader(p) == p.ok \/ p.error = "HeaderDecodeError"

\* C15: for every document text, comment list and comment add accept the text
\* exactly when parse_frontmatter finds a delimited header in it, and the body they
\* pass to read_comments is the body parse_frontmatter returns.
C15_CommentsUseCodec ==
  step \in {"listed", "added"} =>
    LET accepted == IF step = "listed" THEN decoded # <<>> ELSE encoded.ok
    IN /\ accepted <=> DelimitedHeader(parsed)
       /\ (accepted /\ parsed.ok) => body = parsed.body

(***************************************************************************)
(* The document and the commands run on it                                 *)
(***************************************************************************)
\* header blocks as write_with_frontmatter writes them
DocHeaders ==
  {to_yaml(IssueMetadata(<<"x">>, "Todo", "Low", <<<<"m", "1">>>>, <<>>, <<>>)),
   to_yaml(IssueMetadata(<<"a", ":", " ", "b">>, "InProgress", "High", <<>>, <<<<"t">>>>, <<Stamp(0)>>))}

\* bodies: none, a description, one with a comment, one with a comment and a later
\* section, one whose comment text is indented
DocBodies ==
  {<<>>,
   <<"d">>,
   <<"d", "\n", "\n", "#", "#", " ", "C", "o", "m", "m", "e", "n", "t", "s", "\n", "\n", "#", "#", "#", " ", "[", "T", "0", "]", " ", "-", " ", "b", "o", "\n", "o", "l", "d", "\n">>,
   <<"d", "\n", "\n", "#", "#", " ", "C", "o", "m", "m", "e", "n", "t", "s", "\n", "\n", "#", "#", "#", " ", "[", "T", "0", "]", " ", "-", " ", "b", "o", "\n", "o", "l", "d", "\n", "\n", "#", "#", " ", "O", "\n", "y">>,
   <<"d", "\n", "\n", "#", "#", " ", "C", "o", "m", "m", "e", "n", "t", "s", "\n", "\n", "#", "#", "#", " ", "[", "T", "0", "]", " ", "-", " ", "b", "o", "\n", " ", "#", "#", " ", "h", "\n">>}

Document(lead, header, description) ==
  lead \o DELIM \o <<NL>> \o header \o DELIM \o <<NL, NL>> \o description

\* the files the commands may find: documents, and a file without frontmatter
Docs == {Document(<<>>, h, b) : h \in DocHeaders, b \in DocBodies} \union {<<"d">>}

\* a header block a user has annotated with a YAML comment line
AnnotatedHeader == <<"t", "i", "t", "l", "e", ":", " ", "x", "\n", "#", "#", " ", "C", "o", "m", "m", "e", "n", "t", "s", "\n", "s", "t", "a", "t", "u", "s", ":", " ", "t", "o", "d", "o", "\n", "p", "r", "i", "o", "r", "i", "t", "y", ":", " ", "l", "o", "w", "\n">>

\* documents edited by hand: blank lines before the opening delimiter, a comment line
\* in the header block
HandEditedDocs ==
  {Document(l, h, b) :
     l \in {<<>>, <<NL, NL, NL, NL>>},
     h \in DocHeaders \union {AnnotatedHeader},
     b \in {<<"d">>, <<"d", "\n", "\n", "#", "#", " ", "C", "o", "m", "m", "e", "n", "t", "s", "\n", "\n", "#", "#", "#", " ", "[", "T", "0", "]", " ", "-", " ", "b", "o", "\n", "o", "l", "d", "\n">>}}

\* contents given to comment add
AddContents == {<<"h", "i">>, <<" ", "#", "#", " ", "h">>, <<"#", "#", " ", "h">>}

\* a content that is a single line not starting with "#"
PlainContent(c) == ~Contains(c, <<NL>>) /\ (c = <<>> \/ c[1] # "#")

EditArgs(status, priority, milestone, tags) ==
  [status |-> status, priority |-> priority, milestone |-> milestone, tags |-> tags]

\* arguments given to edit_issue
EditInputs ==
  {EditArgs(<<>>, <<>>, <<>>, <<>>),
   EditArgs(<<<<"D", "O", "N", "E">>>>, <<>>, <<>>, <<>>),
   EditArgs(<<<<"b", "o", "g", "u", "s">>>>, <<>>, <<>>, <<>>),
   EditArgs(<<>>, <<<<"h", "i", "g", "h">>>>, <<>>, <<>>),
   EditArgs(<<<<"d", "o", "n", "e">>>>, <<<<"z", "z">>>>, <<>>, <<>>),
   EditArgs(<<>>, <<>>, <<<<>>>>, <<>>),
   EditArgs(<<>>, <<>>, <<>>, <<<<"a", ",", " ", "b">>>>)}

UpdateIssueRequest(status, priority, milestone, tags, description) ==
  [status |-> status, priority |-> priority, milestone |-> milestone, tags |-> tags,
   description |-> description]

\* payloads given to the web UI's issue update
Payloads ==
  {UpdateIssueRequest(st, <<>>, <<>>, <<>>, d) :
     st \in {<<>>, <<<<"D", "O", "N", "E">>>>, <<<<"b", "o", "g", "u", "s">>>>}, d \in {<<>>, <<<<"n", "e", "w">>>>}}

LastOp(op, ok) == [op |-> op, ok |-> ok]

\* the comments `comment list` reads from a file, none when it rejects the file
Readable(f) ==
  LET listed(r) == IF r = <<>> THEN <<>> ELSE r[1]
  IN listed(comment_list(f))

StartWith(docs) ==
  /\ file \in docs
  /\ clock = 1
  /\ last = LastOp("init", TRUE)
  /\ initial = [accepted |-> parse_frontmatter(file).ok, comments |-> Readable(file)]
  /\ added = <<>>
  /\ plain = TRUE
  /\ body = NoValue /\ comments = NoValue /\ encoded = NoValue /\ decoded = NoValue
  /\ meta = NoValue /\ raw = NoValue /\ parsed = NoValue /\ step = NoValue

Init == StartWith(Docs) /\ NoOthers

InitHandEdited == StartWith(HandEditedDocs) /\ NoOthers

\* pillar comment add issue <project> <id> <content>
CommentAdd ==
  /\ clock <= MaxClock
  /\ \E author \in Authors, content \in AddContents :
       LET r == comment_add(file, author, Stamp(clock), content)
       IN /\ file' = r.file
          /\ last' = LastOp("add", r.ok)
          /\ added' = IF r.ok THEN Append(added, Comment(author, Stamp(clock), content))
                      ELSE added
          /\ plain' = (plain /\ (r.ok => PlainContent(content)))
  /\ clock' = clock + 1
  /\ UNCHANGED <<otherVars, initial, body, comments, encoded, decoded, meta, raw, parsed, step>>

\* pillar issue edit <project>/<id> [--status] [--priority] [--milestone] [--tags]
EditIssue ==
  /\ clock <= MaxClock
  /\ \E a \in EditInputs :
       LET r == edit_issue(file, a.status, a.priority, a.milestone, a.tags, Stamp(clock))
       IN /\ file' = r.file
          /\ last' = LastOp("edit", r.ok)
          /\ plain' = (plain /\ r.file = file)
  /\ clock' = clock + 1
  /\ UNCHANGED <<otherVars, initial, added, body, comments, encoded, decoded, meta, raw, parsed, step>>

\* PATCH /api/issues/:project/:number
UpdateIssue ==
  /\ clock <= MaxClock
  /\ \E payload \in Payloads :
       LET r == update_issue_handler(file, payload, Stamp(clock))
       IN /\ file' = r.file
          /\ last' = LastOp("update", r.ok)
          /\ plain' = (plain /\ r.file = file)
  /\ clock' = clock + 1
  /\ UNCHANGED <<otherVars, initial, added, body, comments, encoded, decoded, meta, raw, parsed, step>>

Next == CommentAdd \/ EditIssue \/ UpdateIssue

Spec == Init /\ [][Next]_vars

SpecHandEdited == InitHandEdited /\ [][Next]_vars

(***************************************************************************)
(* Properties of the commands                                              *)
(***************************************************************************)
IsPrefix(xs, ys) == Len(xs) <= Len(ys) /\ SubSeq(ys, 1, Len(xs)) = xs

\* C4: starting from a document parse_frontmatter accepts, after any sequence of
\* successful comment adds whose contents are single lines not starting with "#",
\* the document's comments are those readable initially followed by the added ones in
\* order of addition, each with its author, timestamp and content.
C4_AppendKeepsOrder ==
  (initial.accepted /\ plain /\ added # <<>>)
    => SameComments(Readable(file), initial.comments \o added)

\* C5: the comments readable before an operation are a prefix of those readable after
\* it: no comment add, edit or description update removes or alters a stored comment.
C5_CommentsAppendOnly ==
  [][IsPrefix(Readable(file), Readable(file'))]_vars

\* C7: a successful comment add on a document parse_frontmatter accepts leaves the
\* decoded header as it was.
C7_AddKeepsHeader ==
  [][(last'.op = "add" /\ last'.ok /\ parse_frontmatter(file).ok)
       => /\ parse_frontmatter(file').ok
          /\ parse_frontmatter(file').metadata = parse_frontmatter(file).metadata]_vars

(***************************************************************************)
(* Two comment add processes on one document.  A process reads the file    *)
(* (comment.rs:63), fails if the text has no frontmatter split, makes its  *)
(* comment (comment.rs:77-79) and writes the file (comment.rs:82-86);      *)
(* nothing orders the steps of one process against those of the other.     *)
(***************************************************************************)
Procs == {1, 2}

Workflow(pc, content, file_content, new_comment, ok) ==
  [pc |-> pc, content |-> content, file_content |-> file_content,
   new_comment |-> new_comment, ok |-> ok]

InitRace ==
  /\ StartWith(Docs) /\ NoUuids /\ NoStore
  /\ workflow \in [Procs -> {Workflow("read", c, NoValue, NoValue, TRUE) : c \in AddContents}]
  /\ events = <<>>

\* fs::read_to_string(&file_path), and the check of the frontmatter split
ReadFile(p) ==
  /\ workflow[p].pc = "read"
  /\ workflow' = [workflow EXCEPT ![p].file_content = file,
                                  ![p].ok = SplitDocument(file) # <<>>,
                                  ![p].pc = IF SplitDocument(file) # <<>> THEN "new" ELSE "done"]
  /\ events' = Append(events, <<p, "read">>)
  /\ UNCHANGED <<docVars, codecVars, uuids, storeVars>>

\* Comment::new(author, content)
NewComment(p) ==
  /\ workflow[p].pc = "new"
  /\ \E author \in Authors :
       workflow' = [workflow EXCEPT ![p].new_comment = Comment(author, Stamp(clock), workflow[p].content),
                                    ![p].pc = "write"]
  /\ clock' = clock + 1
  /\ UNCHANGED <<file, last, initial, added, plain, codecVars, uuids, events, storeVars>>

\* fs::write(&file_path, updated_content) of the text made from what the process read
WriteFile(p) ==
  /\ workflow[p].pc = "write"
  /\ file' = comment_add(workflow[p].file_content, workflow[p].new_comment.author,
                         workflow[p].new_comment.timestamp, workflow[p].content).file
  /\ added' = Append(added, workflow[p].new_comment)
  /\ last' = LastOp("add", TRUE)
  /\ workflow' = [workflow EXCEPT ![p].pc = "done"]
  /\ events' = Append(events, <<p, "write">>)
  /\ UNCHANGED <<clock, initial, plain, codecVars, uuids, storeVars>>

NextRace == \E p \in Procs : ReadFile(p) \/ NewComment(p) \/ WriteFile(p)

SpecRace == InitRace /\ [][NextRace]_vars

\* the position of an event in the order of file accesses
EventAt(e) == CHOOSE i \in 1..Len(events) : events[i] = e

\* both processes have written
BothAdded == \A p \in Procs : workflow[p].pc = "done" /\ workflow[p].ok

\* both processes read the file before either wrote it
Interleaved ==
  \A p \in Procs, q \in Procs : EventAt(<<p, "read">>) < EventAt(<<q, "write">>)

\* process p wrote the file before process q read it
OneAfterTheOther(p, q) == EventAt(<<p, "write">>) < EventAt(<<q, "read">>)

\* the document's text holds the entry header write_comments makes for the comment
EntryWritten(c) ==
  Contains(file, <<NL>> \o MARKER \o c.timestamp \o <<"]">> \o DASH \o c.author \o <<NL>>)

\* C16: when two comment add workflows both read the file before either writes, the
\* final document holds the later writer's new comment and not the earlier writer's;
\* when one runs after the other, it holds both new comments.
C16_LostUpdateOnlyWhenInterleaved ==
  BothAdded =>
    /\ Interleaved => (EntryWritten(added[2]) /\ ~EntryWritten(added[1]))
    /\ \A p \in Procs, q \in Procs :
         OneAfterTheOther(p, q) =>
           (EntryWritten(workflow[p].new_comment) /\ EntryWritten(workflow[q].new_comment))

\* a content without a line break that does not start "## " once trimmed
UnbrokenContent(c) == ~Contains(c, <<NL>>) /\ ~StartsWith(Trim(c), SECTION)

\* the race on a document whose comments read_comments returns whole, with new
\* contents it returns whole: the update is lost exactly when the workflows interleave
LostUpdateOnWholeComments ==
  (/\ BothAdded
   /\ \A p \in Procs : UnbrokenContent(workflow[p].content)
   /\ \A i \in 1..Len(initial.comments) : UnbrokenContent(initial.comments[i].content))
    => /\ Interleaved =>
            /\ EntryWritten(added[2]) /\ ~EntryWritten(added[1])
            /\ SameComments(Readable(file), initial.comments \o <<added[2]>>)
       /\ \A p \in Procs, q \in Procs :
            OneAfterTheOther(p, q) =>
              SameComments(Readable(file),
                           initial.comments \o <<workflow[p].new_comment, workflow[q].new_comment>>)

(***************************************************************************)
(* u32 arithmetic (fs.rs, generate_issue_id).  A u32 is the pair of its    *)
(* 16-bit halves <<high, low>>, so that the whole range 0 .. 2^32 - 1 and   *)
(* the overflow of max_id + 1 are represented.                              *)
(***************************************************************************)
Half == 65536

U32Zero == <<0, 0>>

U32Max == <<Half - 1, Half - 1>>

U32Less(a, b) == a[1] < b[1] \/ (a[1] = b[1] /\ a[2] < b[2])

DigitValue(c) == CHOOSE d \in 0..9 : Digits[d + 1] = c

IsDigit(c) == \E d \in 0..9 : Digits[d + 1] = c

\* a * 10 + d, as an Option: empty when the result does not fit a u32
TimesTenPlus(a, d) ==
  LET carry(low) == IF a[1] * 10 + (low \div Half) >= Half THEN <<>>
                    ELSE << <<a[1] * 10 + (low \div Half), low % Half>> >>
  IN carry(a[2] * 10 + d)

RECURSIVE ParseDigits(_, _)
ParseDigits(s, acc) ==
  LET carried(value) == IF value = <<>> THEN <<>> ELSE ParseDigits(Tail(s), value[1])
  IN IF s = <<>> THEN <<acc>> ELSE carried(TimesTenPlus(acc, DigitValue(s[1])))

\* str::parse::<u32>, as an Option: an optional "+", then one or more digits
\* whose value fits
parse_u32(s) ==
  LET digits(t) == IF t # <<>> /\ \A i \in 1..Len(t) : IsDigit(t[i]) THEN ParseDigits(t, U32Zero) ELSE <<>>
  IN IF s # <<>> /\ s[1] = "+" THEN digits(Tail(s)) ELSE digits(s)

\* a / 10 and a % 10
DivTen(a) ==
  LET mid == (a[1] % 10) * Half + a[2]
  IN [quot |-> <<a[1] \div 10, mid \div 10>>, rem |-> mid % 10]

\* Display for u32
RECURSIVE U32ToString(_)
U32ToString(a) ==
  LET digits(d) == IF d.quot = U32Zero THEN <<Digits[d.rem + 1]>>
                   ELSE U32ToString(d.quot) \o <<Digits[d.rem + 1]>>
  IN digits(DivTen(a))

\* format!("{:03}", a)
Format03(a) ==
  LET pad(d) == IF Len(d) >= 3 THEN d ELSE [i \in 1..(3 - Len(d)) |-> "0"] \o d
  IN pad(U32ToString(a))

\* what a + 1 evaluates to: the next number, or at u32::MAX either a panic
\* (overflow checks on) or 0 (overflow checks off), as the build decides
AddOne(a) ==
  IF a = U32Max THEN {[panic |-> TRUE, value |-> U32Zero], [panic |-> FALSE, value |-> U32Zero]}
  ELSE IF a[2] + 1 < Half THEN {[panic |-> FALSE, value |-> <<a[1], a[2] + 1>>]}
  ELSE {[panic |-> FALSE, value |-> <<a[1] + 1, 0>>]}

(***************************************************************************)
(* File names (commands/milestone.rs and commands/issue.rs)                *)
(***************************************************************************)
\* char::is_alphanumeric on the characters of the model
IsAlphanumeric(c) ==
  \/ IsDigit(c)
  \/ c \in DOMAIN UpperToLower
  \/ \E u \in DOMAIN UpperToLower : UpperToLower[u] = c

\* str::replace(|c| !c.is_alphanumeric() && c != '-' && c != '_', "-")
ReplaceOthers(s) ==
  [i \in 1..Len(s) |-> IF ~IsAlphanumeric(s[i]) /\ s[i] # "-" /\ s[i] # "_" THEN "-" ELSE s[i]]

\* str::replace("--", "-"): one pass over the non-overlapping matches
RECURSIVE ReplacePairs(_)
ReplacePairs(s) ==
  IF Len(s) < 2 THEN s
  ELSE IF s[1] = "-" /\ s[2] = "-" THEN <<"-">> \o ReplacePairs(SubSeq(s, 3, Len(s)))
  ELSE <<s[1]>> \o ReplacePairs(Tail(s))

\* str::trim_matches(c)
TrimMatches(s, c) ==
  LET keep == {i \in 1..Len(s) : s[i] # c}
      first == CHOOSE i \in keep : \A j \in keep : i <= j
      final == CHOOSE i \in keep : \A j \in keep : j <= i
  IN IF keep = {} THEN <<>> ELSE SubSeq(s, first, final)

\* chars().take(n)
Take(s, n) == IF Len(s) <= n THEN s ELSE SubSeq(s, 1, n)

\* sanitize_filename of commands/milestone.rs
milestone_sanitize_filename(s) ==
  TrimMatches(ReplacePairs(ReplaceOthers(to_lowercase(s))), "-")

\* sanitize_filename of commands/issue.rs
issue_sanitize_filename(s) ==
  TrimMatches(ReplacePairs(ReplaceOthers(Take(to_lowercase(s), 40))), "-")

(***************************************************************************)
(* The project directory on disk.  A path is the sequence of its names     *)
(* below the project directory; a store holds the directories that exist   *)
(* and, for every file, what was written to it.  Names are compared        *)
(* exactly, as on a case-sensitive file system.                             *)
(***************************************************************************)
MilestonesDir == <<<<"m", "i", "l", "e", "s", "t", "o", "n", "e", "s">>>>

IssuesDir == <<<<"i", "s", "s", "u", "e", "s">>>>

MD == <<".", "m", "d">>

EmptyStore == [dirs |-> {}, files |-> [p \in {} |-> <<>>]]

\* Path::exists
path_exists(store, path) == path \in store.dirs \/ path \in DOMAIN store.files

\* Path::is_file
is_file(store, path) == path \in DOMAIN store.files

\* ensure_dir (fs.rs): fs::create_dir_all
ensure_dir(store, path) ==
  [store EXCEPT !.dirs = @ \union {SubSeq(path, 1, k) : k \in 1..Len(path)}]

\* fs::write
fs_write(store, path, content) ==
  [store EXCEPT !.files = [p \in DOMAIN store.files \union {path} |->
                             IF p = path THEN content ELSE store.files[p]]]

\* the names fs::read_dir(dir) yields
read_dir(store, dir) ==
  {p[Len(p)] : p \in {q \in store.dirs \union DOMAIN store.files :
                        Len(q) = Len(dir) + 1 /\ SubSeq(q, 1, Len(dir)) = dir}}

\* what write_with_frontmatter puts in an entity's file, by the title of its metadata
EntityFile(entity, title) == [entity |-> entity, title |-> title]

\* create_milestone without the test that the file exists
create_milestone_Overwrite(store, title) ==
  [ok |-> TRUE,
   store |-> fs_write(ensure_dir(store, MilestonesDir),
                      MilestonesDir \o <<milestone_sanitize_filename(title) \o MD>>,
                      EntityFile("milestone", title)),
   path |-> MilestonesDir \o <<milestone_sanitize_filename(title) \o MD>>]

\* create_milestone (commands/milestone.rs) in an existing project
create_milestone(store, title) ==
  LET create(with_dir, milestone_path) ==
        IF path_exists(with_dir, milestone_path)
        THEN [ok |-> FALSE, store |-> with_dir, path |-> milestone_path]
        ELSE [ok |-> TRUE, store |-> fs_write(with_dir, milestone_path, EntityFile("milestone", title)),
              path |-> milestone_path]
  IN create(ensure_dir(store, MilestonesDir),
            MilestonesDir \o <<milestone_sanitize_filename(title) \o MD>>)

\* the file `comment add` and `comment list` look for, for a milestone
milestone_file(milestone_title) == MilestonesDir \o <<milestone_title \o MD>>

\* the results of resolving a milestone in `comment add` and `comment list`
resolve_milestone(store, milestone_title) ==
  IF path_exists(store, milestone_file(milestone_title))
  THEN {[ok |-> TRUE, path |-> milestone_file(milestone_title)]}
  ELSE {[ok |-> FALSE, path |-> <<>>]}

\* generate_issue_id (fs.rs): the results it can give
generate_issue_id(store) ==
  LET ids == {id[1] : id \in {parse_u32(Split(name, "-")[1]) : name \in read_dir(store, IssuesDir)} \ {<<>>}}
      max_id == IF ids = {} THEN U32Zero ELSE CHOOSE a \in ids : \A b \in ids : ~U32Less(a, b)
  IN IF ~path_exists(store, IssuesDir) THEN {[ok |-> TRUE, id |-> <<"0", "0", "1">>]}
     ELSE {[ok |-> ~sum.panic, id |-> Format03(sum.value)] : sum \in AddOne(max_id)}

\* create_issue (commands/issue.rs) in an existing project: the results it can give
create_issue(store, title, priority) ==
  LET create(with_dir, generated, issue_path) ==
        IF ~generated.ok \/ PriorityFromStr(priority) = <<>>
        THEN [ok |-> FALSE, store |-> with_dir, id |-> <<>>, path |-> <<>>]
        ELSE [ok |-> TRUE, store |-> fs_write(with_dir, issue_path, EntityFile("issue", title)),
              id |-> generated.id, path |-> issue_path]
      generate(with_dir) ==
        {create(with_dir, generated,
                IssuesDir \o <<generated.id \o <<"-">> \o issue_sanitize_filename(title) \o MD>>) :
           generated \in generate_issue_id(with_dir)}
  IN generate(ensure_dir(store, IssuesDir))

\* str::parse::<usize>, as an Option; the identifiers of the model are below 2^32
parse_usize(s) == parse_u32(s)

\* the results of resolving an issue in `comment add` and `comment list`: the
\* directory is walked in no specified order and the first match is taken
resolve_issue(store, issue_id) ==
  LET padded(parsed_id) == Format03(IF parsed_id = <<>> THEN U32Zero ELSE parsed_id[1])
      found(padded_id) ==
        {name \in read_dir(store, IssuesDir) :
           /\ is_file(store, IssuesDir \o <<name>>)
           /\ (StartsWith(name, padded_id \o <<"-">>) \/ StartsWith(name, issue_id \o <<"-">>))}
      first(matches) == IF matches = {} THEN {[ok |-> FALSE, path |-> <<>>]}
                        ELSE {[ok |-> TRUE, path |-> IssuesDir \o <<name>>] : name \in matches}
  IN first(found(padded(parse_usize(issue_id))))

(***************************************************************************)
(* SpecStore: one project directory, the create commands and the path      *)
(* resolution of the comment commands.  made logs every successful create   *)
(* with the store it found; outcome is the last command's result.           *)
(***************************************************************************)
MaxMade == 3

MilestoneTitles == {<<"v", "1">>, <<"v", "1", ".", "0">>, <<"B", "i", "g", " ", "B", "a", "n", "g">>, <<"b", "i", "g", "-", "b", "a", "n", "g">>}

CommentCommands == {"add", "list"}

Outcome(command, entity, identifier, ok, path) ==
  [command |-> command, entity |-> entity, identifier |-> identifier, ok |-> ok, path |-> path]

Made(entity, title, id, path, before) ==
  [entity |-> entity, title |-> title, id |-> id, file |-> path, before |-> before]

CreateMilestone ==
  /\ Len(made) < MaxMade
  /\ \E title \in MilestoneTitles :
       LET done(r) ==
             /\ fs' = r.store
             /\ made' = IF r.ok THEN Append(made, Made("milestone", title, <<>>, r.path, fs)) ELSE made
             /\ outcome' = Outcome("create", "milestone", title, r.ok, r.path)
       IN done(create_milestone(fs, title))
  /\ UNCHANGED <<docVars, codecVars, uuids, raceVars>>

ResolveMilestone ==
  /\ \E command \in CommentCommands, title \in MilestoneTitles :
       \E r \in resolve_milestone(fs, title) :
         outcome' = Outcome(command, "milestone", title, r.ok, r.path)
  /\ UNCHANGED <<docVars, codecVars, uuids, raceVars, fs, made>>

IssueTitles == {<<"a">>, <<"b", " ", "c">>}

Priorities == {<<"l", "o", "w">>, <<"b", "a", "d">>}

\* a store holding the issues directory with the given file names
StoreWith(names) ==
  [dirs |-> {IssuesDir},
   files |-> [p \in {IssuesDir \o <<name>> : name \in names} |-> EntityFile("issue", <<"o", "l", "d">>)]]

\* the project directory before the commands run: fresh, or with issue files
\* of earlier runs, of other tools or written by hand
InitialStores ==
  {EmptyStore} \union
  {StoreWith(names) : names \in {{}, {<<"n", "o", "t", "e", "s", ".", "m", "d">>}, {<<"0", "0", "3", "-", "c", ".", "m", "d">>}, {<<"7", "-", "x", ".", "m", "d">>, <<"0", "0", "1", "-", "a", ".", "m", "d">>},
                                 {<<"9", "9", "9", "-", "z", ".", "m", "d">>}, {<<"4", "2", "9", "4", "9", "6", "7", "2", "9", "4", "-", "y", ".", "m", "d">>}, {<<"4", "2", "9", "4", "9", "6", "7", "2", "9", "5", "-", "x", ".", "m", "d">>}}}

InitStore ==
  /\ NoDocument /\ NoCodec /\ NoUuids /\ NoRace
  /\ fs \in InitialStores
  /\ made = <<>>
  /\ outcome = Outcome("none", "none", <<>>, FALSE, <<>>)

CreateIssue ==
  /\ Len(made) < MaxMade
  /\ \E title \in IssueTitles, priority \in Priorities :
       \E r \in create_issue(fs, title, priority) :
         /\ fs' = r.store
         /\ made' = IF r.ok THEN Append(made, Made("issue", title, r.id, r.path, fs)) ELSE made
         /\ outcome' = Outcome("create", "issue", title, r.ok, r.path)
  /\ UNCHANGED <<docVars, codecVars, uuids, raceVars>>

\* the id as the user may type it: without leading zeros
Unpadded(id) == U32ToString(parse_u32(id)[1])

IssueIdentifiers ==
  {<<"1">>, <<"0", "0", "1">>, <<"x">>} \union
  UNION {{made[i].id, Unpadded(made[i].id)} : i \in {j \in 1..Len(made) : made[j].entity = "issue"}}

ResolveIssue ==
  /\ \E command \in CommentCommands, issue_id \in IssueIdentifiers :
       \E r \in resolve_issue(fs, issue_id) :
         outcome' = Outcome(command, "issue", issue_id, r.ok, r.path)
  /\ UNCHANGED <<docVars, codecVars, uuids, raceVars, fs, made>>

NextStore == CreateMilestone \/ CreateIssue \/ ResolveMilestone \/ ResolveIssue

SpecStore == InitStore /\ [][NextStore]_vars

\* C17: whenever a comment command names a milestone by the title that
\* create_milestone was given, it resolves to the file create_milestone wrote.
C17_MilestoneResolvedByTitle ==
  \A i \in 1..Len(made) :
    (/\ made[i].entity = "milestone"
     /\ outcome.command \in CommentCommands
     /\ outcome.entity = "milestone"
     /\ outcome.identifier = made[i].title)
    => (outcome.ok /\ outcome.path = made[i].file)

\* the numeric id prefixes of the names in the issues directory
IdsPresent(store) ==
  {id[1] : id \in {parse_u32(Split(name, "-")[1]) : name \in read_dir(store, IssuesDir)} \ {<<>>}}

MadeIssues == {i \in 1..Len(made) : made[i].entity = "issue"}

IdIncreases(m) ==
  /\ \A a \in IdsPresent(m.before) : U32Less(a, parse_u32(m.id)[1])
  /\ IdsPresent(m.before) = {} => m.id = <<"0", "0", "1">>
  /\ ~path_exists(m.before, m.file)

\* C18: every issue create_issue made received an id greater than every id
\* that was present when it ran ("001" when none was), and its file did not
\* exist before.
C18_IssueIdsIncrease == \A i \in MadeIssues : IdIncreases(made[i])

\* the same, for the creations that found no id equal to u32::MAX
IssueIdsIncreaseBelowMax ==
  \A i \in MadeIssues : U32Max \notin IdsPresent(made[i].before) => IdIncreases(made[i])

\* C19: whenever a comment command names an issue create_issue made by its
\* id, unpadded or zero-padded to three digits, it resolves to that issue's
\* file.
C19_IssueResolvedByNumber ==
  \A i \in MadeIssues :
    (/\ outcome.command \in CommentCommands
     /\ outcome.entity = "issue"
     /\ outcome.identifier \in {made[i].id, Unpadded(made[i].id)})
    => (outcome.ok /\ outcome.path = made[i].file)

\* the same, for the issues whose creation found no id equal to u32::MAX
IssueResolvedByNumberBelowMax ==
  \A i \in MadeIssues :
    (/\ U32Max \notin IdsPresent(made[i].before)
     /\ outcome.command \in CommentCommands
     /\ outcome.entity = "issue"
     /\ outcome.identifier \in {made[i].id, Unpadded(made[i].id)})
    => (outcome.ok /\ outcome.path = made[i].file)

(***************************************************************************)
(* SpecInit: init (commands/init.rs) in one current directory.  Paths are  *)
(* relative to the current directory; outcome.identifier is the            *)
(* base_directory option the last init was given.                          *)
(***************************************************************************)
PillarDir == <<<<".", "p", "i", "l", "l", "a", "r">>>>

\* the names of a relative path, as the file system resolves them: empty
\* names and "." are skipped
Components(path) ==
  SelectSeq(Split(path, "/"), LAMBDA name : name # <<>> /\ name # <<".">>)

\* init (commands/init.rs)
init(store, base_directory) ==
  LET write_all(base_dir) ==
        LET with_pillar == ensure_dir(store, PillarDir)
            with_config == fs_write(with_pillar, PillarDir \o <<<<"c", "o", "n", "f", "i", "g", ".", "t", "o", "m", "l">>>>, EntityFile("config", base_dir))
            with_templates == ensure_dir(with_config, PillarDir \o <<<<"t", "e", "m", "p", "l", "a", "t", "e", "s">>>>)
            with_project == fs_write(with_templates, PillarDir \o <<<<"t", "e", "m", "p", "l", "a", "t", "e", "s">>, <<"p", "r", "o", "j", "e", "c", "t", ".", "m", "d">>>>, EntityFile("template", <<"p", "r", "o", "j", "e", "c", "t">>))
            with_milestone == fs_write(with_project, PillarDir \o <<<<"t", "e", "m", "p", "l", "a", "t", "e", "s">>, <<"m", "i", "l", "e", "s", "t", "o", "n", "e", ".", "m", "d">>>>, EntityFile("template", <<"m", "i", "l", "e", "s", "t", "o", "n", "e">>))
            with_issue == fs_write(with_milestone, PillarDir \o <<<<"t", "e", "m", "p", "l", "a", "t", "e", "s">>, <<"i", "s", "s", "u", "e", ".", "m", "d">>>>, EntityFile("template", <<"i", "s", "s", "u", "e">>))
        IN IF base_dir # <<".">> THEN ensure_dir(with_issue, Components(base_dir)) ELSE with_issue
      validate(base_dir) ==
        IF base_dir = <<".", "p", "i", "l", "l", "a", "r">> \/ StartsWith(base_dir, <<".", "p", "i", "l", "l", "a", "r", "/">>)
        THEN [ok |-> FALSE, store |-> store]
        ELSE [ok |-> TRUE, store |-> write_all(base_dir)]
  IN IF path_exists(store, PillarDir) THEN [ok |-> FALSE, store |-> store]
     ELSE validate(IF base_directory = <<>> THEN <<".">> ELSE base_directory[1])

BaseDirectories ==
  {<<>>} \union {<<base_dir>> : base_dir \in {<<".">>, <<"p", "m">>, <<".", "p", "i", "l", "l", "a", "r">>, <<".", "p", "i", "l", "l", "a", "r", "/", "x">>, <<".", "/", ".", "p", "i", "l", "l", "a", "r">>,
                                                <<".", "/", ".", "p", "i", "l", "l", "a", "r", "/", "x">>, <<".", "p", "i", "l", "l", "a", "r", "x">>, <<"p", "m", "/", ".", "p", "i", "l", "l", "a", "r">>,
                                           <<"d", "o", "c", "s", "/", "p", "m">>}}

\* the current directory before init runs: empty, with a directory pm, with
\* an empty .pillar directory, or with the workspace of an earlier init
CurrentDirs ==
  {EmptyStore, ensure_dir(EmptyStore, <<<<"p", "m">>>>), ensure_dir(EmptyStore, PillarDir),
   init(EmptyStore, <<<<"p", "m">>>>).store}

InitInit ==
  /\ NoDocument /\ NoCodec /\ NoUuids /\ NoRace
  /\ fs \in CurrentDirs
  /\ made = <<>>
  /\ outcome = Outcome("none", "none", <<>>, FALSE, <<>>)

RunInit ==
  /\ \E base_directory \in BaseDirectories :
       LET done(r) ==
             /\ fs' = r.store
             /\ outcome' = Outcome("init", "workspace", base_directory, r.ok, <<>>)
       IN done(init(fs, base_directory))
  /\ UNCHANGED <<docVars, codecVars, uuids, raceVars, made>>

NextInit == RunInit

SpecInit == InitInit /\ [][NextInit]_vars

\* the base directory is .pillar or a directory below it
InsidePillar(base_directory) ==
  /\ base_directory # <<>>
  /\ Components(base_directory[1]) # <<>>
  /\ Components(base_directory[1])[1] = <<".", "p", "i", "l", "l", "a", "r">>

\* C20: an init that finds .pillar in the current directory, or is given a
\* base directory that is .pillar or lies inside it, returns an error and
\* leaves the directory as it was.
C20_InitFailsClosed ==
  [][(outcome'.command = "init" /\ (path_exists(fs, PillarDir) \/ InsidePillar(outcome'.identifier)))
       => (~outcome'.ok /\ fs' = fs)]_vars

\* the same, for the base directories written as ".pillar" or ".pillar/..."
InitFailsClosedAsWritten ==
  [][(/\ outcome'.command = "init"
      /\ \/ path_exists(fs, PillarDir)
         \/ /\ outcome'.identifier # <<>>
            /\ (outcome'.identifier[1] = <<".", "p", "i", "l", "l", "a", "r">> \/ StartsWith(outcome'.identifier[1], <<".", "p", "i", "l", "l", "a", "r", "/">>)))
       => (~outcome'.ok /\ fs' = fs)]_vars

(***************************************************************************)
(* The base directory of a workspace: the project directories below it.    *)
(* A project's store is the part of the base directory's store below the    *)
(* project's path.                                                          *)
(***************************************************************************)
README == <<"R", "E", "A", "D", "M", "E", ".", "m", "d">>

\* the store below dir, with paths relative to dir (base.join(dir))
Below(store, dir) ==
  [dirs |-> {From(p, Len(dir)) : p \in {q \in store.dirs : IsPrefix(dir, q) /\ Len(q) > Len(dir)}},
   files |-> [p \in {From(q, Len(dir)) : q \in {q \in DOMAIN store.files : IsPrefix(dir, q)}} |->
                store.files[dir \o p]]]

\* the store with the part below dir replaced by sub
Put(store, dir, sub) ==
  [dirs |-> store.dirs \union {dir \o p : p \in sub.dirs},
   files |-> [p \in DOMAIN store.files \union {dir \o q : q \in DOMAIN sub.files} |->
                IF IsPrefix(dir, p) /\ From(p, Len(dir)) \in DOMAIN sub.files
                THEN sub.files[From(p, Len(dir))] ELSE store.files[p]]]

\* what write_with_frontmatter puts in a project's README.md, by its metadata
ProjectFile(name, project_id, priority) ==
  [entity |-> "project", title |-> name, project_id |-> project_id, priority |-> priority]

\* validate_project_id (commands/project.rs): whether it returns Ok
validate_project_id(id) ==
  /\ id # <<>>
  /\ Len(id) <= 20
  /\ \A i \in 1..Len(id) : IsAlphanumeric(id[i]) \/ id[i] = "-" \/ id[i] = "_"

\* str::split(&[' ', '-', '_'][..])
RECURSIVE SplitAny(_, _)
SplitAny(s, seps) ==
  LET at == {i \in 1..Len(s) : s[i] \in seps}
      cut(n) == <<SubSeq(s, 1, n - 1)>> \o SplitAny(SubSeq(s, n + 1, Len(s)), seps)
  IN IF at = {} THEN <<s>> ELSE cut(CHOOSE i \in at : \A j \in at : i <= j)

\* generate_default_project_id (commands/project.rs)
generate_default_project_id(name) ==
  LET initials(words) == [i \in 1..Len(words) |-> words[i][1]]
      acronym(words) ==
        IF Len(words) > 1
        THEN to_lowercase(initials(Take(SelectSeq(words, LAMBDA w : w # <<>>), 4)))
        ELSE to_lowercase(Take(name, 4))
  IN acronym(SplitAny(name, {" ", "-", "_"}))

\* list_projects (fs.rs): the metadata of the projects of the workspace
list_all(store) ==
  {store.files[<<name, README>>] :
     name \in {n \in read_dir(store, <<>>) : /\ <<n>> \in store.dirs
                                              /\ n[1] # "."
                                              /\ is_file(store, <<n, README>>)}}

\* create_project (commands/project.rs)
create_project(store, name, project_id, priority) ==
  LET write(with_dirs, id) ==
        IF PriorityFromStr(priority) = <<>> THEN [ok |-> FALSE, store |-> with_dirs]
        ELSE [ok |-> TRUE,
              store |-> fs_write(with_dirs, <<name, README>>,
                                 ProjectFile(name, id, PriorityFromStr(priority)[1]))]
      make(id) ==
        write(ensure_dir(ensure_dir(ensure_dir(store, <<name>>), <<name>> \o MilestonesDir),
                         <<name>> \o IssuesDir), id)
  IN IF path_exists(store, <<name>>) THEN [ok |-> FALSE, store |-> store]
     ELSE IF project_id = <<>> THEN make(generate_default_project_id(name))
     ELSE IF ~validate_project_id(project_id[1]) THEN [ok |-> FALSE, store |-> store]
     ELSE IF \E p \in list_all(store) : p.project_id = project_id[1] THEN [ok |-> FALSE, store |-> store]
     ELSE make(project_id[1])

\* create_milestone (commands/milestone.rs), with the project named
project_create_milestone(store, project_name, title) ==
  LET place(r) == [ok |-> r.ok, store |-> Put(store, <<project_name>>, r.store),
                   path |-> <<project_name>> \o r.path]
  IN IF ~path_exists(store, <<project_name>>) THEN [ok |-> FALSE, store |-> store, path |-> <<>>]
     ELSE place(create_milestone(Below(store, <<project_name>>), title))

(***************************************************************************)
(* SpecWorkspace: the create commands on one base directory.               *)
(* outcome.path is the path the create command decides on: the project's   *)
(* directory, or the milestone's file.                                      *)
(***************************************************************************)
ProjectNames == {<<"a", "p", "p">>, <<"B", "i", "g", " ", "A", "p", "p">>}

ProjectIds == {<<>>, <<<<"a", "b">>>>, <<<<"a", " ", "b">>>>, <<<<>>>>, <<<<"a", "a", "a", "a", "a", "a", "a", "a", "a", "a", "a", "a", "a", "a", "a", "a", "a", "a", "a", "a", "a">>>>}

\* the base directory before the commands run: empty, with the .pillar
\* directory of init, with a directory made by hand, or with a project
Workspaces ==
  {EmptyStore, ensure_dir(EmptyStore, PillarDir), ensure_dir(EmptyStore, <<<<"a", "p", "p">>>>),
   create_project(EmptyStore, <<"a", "p", "p">>, <<<<"a", "b">>>>, <<"l", "o", "w">>).store}

InitWorkspace ==
  /\ NoDocument /\ NoCodec /\ NoUuids /\ NoRace
  /\ fs \in Workspaces
  /\ made = <<>>
  /\ outcome = Outcome("none", "none", <<>>, FALSE, <<>>)

CreateProject ==
  /\ \E name \in ProjectNames, project_id \in ProjectIds, priority \in Priorities :
       LET done(r) ==
             /\ fs' = r.store
             /\ outcome' = Outcome("create", "project", name, r.ok, <<name>>)
       IN done(create_project(fs, name, project_id, priority))
  /\ UNCHANGED <<docVars, codecVars, uuids, raceVars, made>>

ProjectCreateMilestone ==
  /\ \E project_name \in ProjectNames, title \in MilestoneTitles :
       LET done(r) ==
             /\ fs' = r.store
             /\ outcome' = Outcome("create", "milestone", title, r.ok, r.path)
       IN done(project_create_milestone(fs, project_name, title))
  /\ UNCHANGED <<docVars, codecVars, uuids, raceVars, made>>

NextWorkspace == CreateProject \/ ProjectCreateMilestone

SpecWorkspace == InitWorkspace /\ [][NextWorkspace]_vars

\* C21: a create_project whose project directory exists, and a
\* create_milestone whose milestone file exists, return an error and leave
\* every file's contents as they were.
C21_DuplicateCreateFails ==
  [][(outcome'.command = "create" /\ path_exists(fs, outcome'.path))
       => (~outcome'.ok /\ fs'.files = fs.files)]_vars

\* a create_milestone was rejected because its file exists
C21_Witness ==
  /\ outcome.command = "create"
  /\ outcome.entity = "milestone"
  /\ ~outcome.ok
  /\ is_file(fs, outcome.path)

\* a create_project was rejected because the project exists
DuplicateProjectRejected ==
  /\ outcome.command = "create"
  /\ outcome.entity = "project"
  /\ ~outcome.ok
  /\ is_file(fs, outcome.path \o <<README>>)

\* C29: a create_project that returns an error has created no directory and
\* no file.
C29_FailedCreateProjectChangesNothing ==
  [][(outcome'.command = "create" /\ outcome'.entity = "project" /\ ~outcome'.ok) => fs' = fs]_vars

\* the same, for the errors found before the directories are made: existing
\* name, invalid project id, project id in use
FailedCreateProjectBeforeDirs ==
  [][(/\ outcome'.command = "create" /\ outcome'.entity = "project" /\ ~outcome'.ok
      /\ fs' # fs)
       => (~path_exists(fs, outcome'.path) /\ ~is_file(fs', outcome'.path \o <<README>>))]_vars

(***************************************************************************)
(* SpecEntries: read_comments on bodies that open with the heading and     *)
(* hold entries written well and badly.                                     *)
(***************************************************************************)
MaxEntryPieces == 4

\* lines of a section: a header with a second "]" and a second " - " and
\* space after the author, a marker without "]", a header without " - ", a
\* header with nothing in the brackets and nothing after the dash, text, a
\* blank line, an indented line, a later section
EntryPieces ==
  {<<"#", "#", "#", " ", "[", "T", "3", "]", " ", "-", " ", "a", "]", " ", "-", " ", "b", " ", "\n">>, <<"#", "#", "#", " ", "[", "x", "\n">>, <<"#", "#", "#", " ", "[", "T", "1", "]", "b", "o", "\n", "n", "e", "w", "\n">>, <<"#", "#", "#", " ", "[", "]", " ", "-", " ", "\n">>, <<"t", "x", "t", "\n">>, <<"\n">>, <<" ", " ", "y", " ", "\n">>, <<"#", "#", " ", "O", "\n">>}

EntryBodies(n) == {HEADING_NL \o t : t \in Texts(EntryPieces, n)}

InitEntries ==
  /\ NoDocument /\ NoOthers
  /\ body \in EntryBodies(MaxEntryPieces)
  /\ comments = NoValue /\ encoded = NoValue /\ decoded = NoValue
  /\ meta = NoValue /\ raw = NoValue /\ parsed = NoValue
  /\ step = "input"

SpecEntries == InitEntries /\ [][NextRead]_vars

\* the lines inside the comment section: those before the first "## " line
InSection(ls) ==
  IF FirstSectionLine(ls) = 0 THEN 1..Len(ls) ELSE 1..(FirstSectionLine(ls) - 1)

\* the marker lines of the section, and those of them that contain "]"
MarkerLines(ls) == {i \in InSection(ls) : StartsWith(ls[i], MARKER)}

HeaderLines(ls) == {i \in MarkerLines(ls) : \E j \in 1..Len(ls[i]) : ls[i][j] = "]"}

\* the n-th element of a set of numbers
Nth(S, n) == CHOOSE i \in S : Cardinality({j \in S : j < i}) = n - 1

FirstBracket(line) == CHOOSE p \in 1..Len(line) : line[p] = "]" /\ \A q \in 1..(p - 1) : line[q] # "]"

\* the text between "### [" and the first "]"
HeaderTimestamp(line) == SubSeq(line, 6, FirstBracket(line) - 1)

\* the positions of " - " in a text
DashAt(t) == {p \in 1..(Len(t) - 2) : SubSeq(t, p, p + 2) = DASH}

\* the trimmed text after the first " - " after the first "]", or "Unknown"
HeaderAuthor(line) ==
  LET t == SubSeq(line, FirstBracket(line) + 1, Len(line))
  IN IF DashAt(t) = {} THEN UNKNOWN
     ELSE Trim(SubSeq(t, 3 + CHOOSE p \in DashAt(t) : \A q \in DashAt(t) : p <= q, Len(t)))

\* C22: read_comments returns one comment for each line of the section that
\* starts with "### [" and contains "]", in order, with the timestamp and the
\* author of that line.
C22_EntryHeaderParsing ==
  step = "read" =>
    LET ls == SectionLines(body)
    IN /\ Len(decoded) = Cardinality(HeaderLines(ls))
       /\ \A n \in 1..Len(decoded) :
            /\ decoded[n].timestamp = HeaderTimestamp(ls[Nth(HeaderLines(ls), n)])
            /\ decoded[n].author = HeaderAuthor(ls[Nth(HeaderLines(ls), n)])

\* read_comments has read a section with a header that holds " - " twice and
\* a header without " - "
C22_Witness ==
  /\ step = "read"
  /\ Len(decoded) >= 2
  /\ \E i \in HeaderLines(SectionLines(body)) :
       Cardinality(DashAt(SectionLines(body)[i])) >= 2
  /\ \E n \in 1..Len(decoded) : decoded[n].author = UNKNOWN

\* the line at which the content ends that starts after line h: the next
\* marker line, the first "## " line, or the line after the last
ContentEnd(ls, h) ==
  LET stops == {i \in MarkerLines(ls) : i > h} \union {Len(ls) + 1}
                 \union (IF FirstSectionLine(ls) = 0 THEN {} ELSE {FirstSectionLine(ls)})
  IN CHOOSE i \in stops : \A j \in stops : i <= j

\* C23: the content of the n-th comment read_comments returns is the lines
\* after its header line up to the next marker line, the first "## " line or
\* the end, joined with newlines and trimmed.
C23_EntryContent ==
  step = "read" =>
    LET ls == SectionLines(body)
        content(h) == Trim(JoinLines(SubSeq(ls, h + 1, ContentEnd(ls, h) - 1)))
    IN \A n \in 1..Len(decoded) :
         n <= Cardinality(HeaderLines(ls)) => decoded[n].content = content(Nth(HeaderLines(ls), n))

\* read_comments has read a section that holds text before its first marker
\* line and a comment of two lines, one of them indented
C23_Witness ==
  /\ step = "read"
  /\ Len(decoded) >= 1
  /\ SectionLines(body) # <<>>
  /\ Trim(SectionLines(body)[1]) # <<>>
  /\ ~StartsWith(SectionLines(body)[1], MARKER)
  /\ \E n \in 1..Len(decoded) :
       /\ \E j \in 1..Len(decoded[n].content) : decoded[n].content[j] = NL
       /\ \E j \in 1..Len(decoded[n].content) : decoded[n].content[j] = " "

\* the marker lines of the section without "]"
MalformedLines(ls) == MarkerLines(ls) \ HeaderLines(ls)

\* the lines of the section that are not a malformed marker line or a line
\* between one and the next marker line
KeptLines(ls) ==
  {i \in 1..Len(ls) : ~\E m \in MalformedLines(ls) : m <= i /\ i < ContentEnd(ls, m)}

Selected(ls, S) == [k \in 1..Cardinality(S) |-> ls[Nth(S, k)]]

\* C25: for a section with a marker line without "]", read_comments returns
\* one comment for each well-formed header line, before and after it; the
\* content of a comment ends at the malformed line at the latest; and the
\* result is what the section gives without the malformed line and the lines
\* from it to the next marker line.
C25_MalformedMarkerPartialList ==
  (step = "read" /\ MalformedLines(SectionLines(body)) # {}) =>
    LET ls == SectionLines(body)
        content(h) == Trim(JoinLines(SubSeq(ls, h + 1, ContentEnd(ls, h) - 1)))
    IN /\ Len(decoded) = Cardinality(HeaderLines(ls))
       /\ \A n \in 1..Len(decoded) :
            /\ decoded[n].timestamp = HeaderTimestamp(ls[Nth(HeaderLines(ls), n)])
            /\ decoded[n].content = content(Nth(HeaderLines(ls), n))
            /\ \A m \in MalformedLines(ls) :
                 Nth(HeaderLines(ls), n) < m => ContentEnd(ls, Nth(HeaderLines(ls), n)) <= m
       /\ decoded = ScanLines(Selected(ls, KeptLines(ls)), <<>>, <<>>, <<>>)

\* read_comments has read a section with a comment with text, then a marker
\* line without "]" and text after it, then a well-formed entry
C25_Witness ==
  /\ step = "read"
  /\ Len(decoded) = 2
  /\ decoded[1].content # <<>>
  /\ \E m \in MalformedLines(SectionLines(body)) :
       /\ Nth(HeaderLines(SectionLines(body)), 1) < m
       /\ m + 1 < Nth(HeaderLines(SectionLines(body)), 2)
       /\ Trim(SectionLines(body)[m + 1]) # <<>>

(***************************************************************************)
(* SpecLocate: the two codec calls of `comment add` on one body:           *)
(* read_comments(body), then write_comments(body, comments) with the new   *)
(* comment appended.                                                        *)
(***************************************************************************)
InitLocate ==
  /\ NoDocument /\ NoOthers
  /\ body \in Bodies(MaxPieces)
  /\ comments = NoValue /\ encoded = NoValue /\ decoded = NoValue
  /\ meta = NoValue /\ raw = NoValue /\ parsed = NoValue
  /\ step = "input"

AppendComment ==
  /\ step = "read"
  /\ \E new_comment \in Comments :
       /\ comments' = Append(decoded, new_comment)
       /\ encoded' = write_comments(body, Append(decoded, new_comment))
  /\ step' = "appended"
  /\ UNCHANGED <<docVars, otherVars, body, decoded, meta, raw, parsed>>

NextLocate == ReadBody \/ AppendComment

SpecLocate == InitLocate /\ [][NextLocate]_vars

\* where the section starts: the offset of the first heading line preceded
\* by a newline, else 0 when the body starts with the heading line, as an Option
SectionStart(b) ==
  LET hits == {p \in 0..(Len(b) - 13) : Sub(b, p, p + 13) = NL_HEADING_NL}
  IN IF hits # {} THEN <<1 + CHOOSE p \in hits : \A q \in hits : p <= q>>
     ELSE IF Len(b) >= 12 /\ Sub(b, 0, 12) = HEADING_NL THEN <<0>>
     ELSE <<>>

\* C24: read_comments scans the text after the heading line at SectionStart,
\* and write_comments keeps the text before that same heading line; without
\* a SectionStart the one returns no comment and the other keeps the body.
C24_SameSectionSearch ==
  step = "appended" =>
    LET at == SectionStart(body)
        kept == IF at = <<>> THEN body ELSE SubSeq(body, 1, at[1])
    IN /\ decoded = IF at = <<>> THEN <<>>
                    ELSE ScanLines(Lines(From(body, at[1] + 12)), <<>>, <<>>, <<>>)
       /\ encoded = TrimEnd(kept) \o <<NL, NL>> \o HEADING_NL \o EntriesText(comments)

\* comment add has run on a body that starts with the heading and holds it
\* again after a newline, with an entry below
C24_Witness ==
  /\ step = "appended"
  /\ StartsWith(body, HEADING_NL)
  /\ SectionStart(body) # <<>>
  /\ SectionStart(body)[1] > 0
  /\ decoded # <<>>

\* C26: writing the same comment list again into the body write_comments
\* returned gives that body again.
C26_WriteCommentsIdempotent ==
  step = "written" => write_comments(encoded, comments) = encoded

\* the same, for the bodies whose text before the section neither ends in a
\* line holding the heading without its newline nor starts with the heading line
WriteIdempotentWhenHeadingClosed ==
  LET kept == BodyWithoutComments(body)
      open == Len(kept) >= 12 /\ SubSeq(kept, Len(kept) - 11, Len(kept)) = <<NL>> \o HEADING
  IN (step = "written" /\ ~open /\ ~StartsWith(kept, HEADING_NL))
       => write_comments(encoded, comments) = encoded

(***************************************************************************)
(* Metadata edits and the body                                             *)
(***************************************************************************)
\* the header fields of m that the call with arguments a does not name
Unnamed(a, m) ==
  [title |-> m.title,
   status |-> IF a.status = <<>> THEN <<m.status>> ELSE <<>>,
   priority |-> IF a.priority = <<>> THEN <<m.priority>> ELSE <<>>,
   milestone |-> IF a.milestone = <<>> THEN <<m.milestone>> ELSE <<>>,
   tags |-> IF a.tags = <<>> THEN <<m.tags>> ELSE <<>>]

\* the step is a successful edit_issue called with the arguments a
EditedWith(a) ==
  /\ last'.op = "edit" /\ last'.ok
  /\ edit_issue(file, a.status, a.priority, a.milestone, a.tags, Stamp(clock)) = Written(file')

\* the frame of an edit with arguments a: the fields it does not name and the
\* trimmed body are read back from the file written, and `comment list` shows
\* the same comments
EditFrame(a, before, after) ==
  /\ after.ok
  /\ Unnamed(a, after.metadata) = Unnamed(a, before.metadata)
  /\ after.metadata.updated = <<Stamp(clock)>>
  /\ after.body = Trim(before.body)
  /\ read_comments(after.body) = read_comments(before.body)
  /\ Readable(file') = Readable(file)

\* a successful edit_issue changes only the header fields named in the call and
\* `updated`, writes back the trimmed body it read, and leaves the comment log of
\* the document as it was
EditIssueKeepsBody ==
  [][\A a \in EditInputs :
       EditedWith(a) => EditFrame(a, parse_frontmatter(file), parse_frontmatter(file'))]_vars

\* the same without the listing of the comment commands
EditKeepsParsedBody ==
  [][\A a \in EditInputs :
       EditedWith(a) =>
         LET before == parse_frontmatter(file)
             after == parse_frontmatter(file')
         IN /\ after.ok
            /\ Unnamed(a, after.metadata) = Unnamed(a, before.metadata)
            /\ after.body = Trim(before.body)
            /\ read_comments(after.body) = read_comments(before.body)]_vars

\* an edit has succeeded on a document whose body ends in a comment section: the
\* header carries the edit's timestamp and the comment is still listed
EditIssueSucceeded ==
  /\ last = LastOp("edit", TRUE)
  /\ parse_frontmatter(file).ok
  /\ parse_frontmatter(file).metadata.updated = <<Stamp(clock - 1)>>
  /\ parse_frontmatter(file).metadata.title = <<"x">>
  /\ Len(Readable(file)) = 1

(***************************************************************************)
(* Milestone and project documents: the serializer for MilestoneMetadata   *)
(* and ProjectMetadata, as for IssueMetadata above.  The fields project    *)
(* and created are left out as there; project_id is the optional field     *)
(* commands/project.rs reads and writes.                                   *)
(***************************************************************************)
K_name == <<"n", "a", "m", "e">>
K_target_date == <<"t", "a", "r", "g", "e", "t", "_", "d", "a", "t", "e">>
K_project_id == <<"p", "r", "o", "j", "e", "c", "t", "_", "i", "d">>
\* "null"
NULL == <<"n", "u", "l", "l">>

MilestoneMetadata(title, status, target_date, updated) ==
  [title |-> title, status |-> status, target_date |-> target_date, updated |-> updated]

ProjectMetadata(name, project_id, status, priority, updated) ==
  [name |-> name, project_id |-> project_id, status |-> status, priority |-> priority,
   updated |-> updated]

\* serde_yaml::to_string(metadata) for a MilestoneMetadata: target_date has no
\* skip_serializing_if, None is written as null
to_yaml_milestone(m) ==
  K_title \o COLON \o YamlScalar(m.title) \o <<NL>>
  \o K_status \o COLON \o StatusName[m.status] \o <<NL>>
  \o K_target_date \o COLON
  \o (IF m.target_date = <<>> THEN NULL ELSE YamlScalar(m.target_date[1])) \o <<NL>>
  \o (IF m.updated = <<>> THEN <<>>
      ELSE K_updated \o COLON \o m.updated[1] \o <<NL>>)

\* serde_yaml::to_string(metadata) for a ProjectMetadata
to_yaml_project(m) ==
  K_name \o COLON \o YamlScalar(m.name) \o <<NL>>
  \o (IF m.project_id = <<>> THEN <<>>
      ELSE K_project_id \o COLON \o YamlScalar(m.project_id[1]) \o <<NL>>)
  \o K_status \o COLON \o StatusName[m.status] \o <<NL>>
  \o K_priority \o COLON \o PriorityName[m.priority] \o <<NL>>
  \o (IF m.updated = <<>> THEN <<>>
      ELSE K_updated \o COLON \o m.updated[1] \o <<NL>>)

\* an Option<String> field: absent, empty, ~ and null read as None
OptionOf(f, k) ==
  IF k \notin DOMAIN f \/ f[k] = <<>> \/ f[k] = <<"~">> \/ f[k] = NULL THEN <<>>
  ELSE <<YamlUnscalar(f[k])>>

\* the MilestoneMetadata a mapping deserializes to, as an Option
DeserializeMilestone(acc) ==
  LET f == acc.fields
      has(k) == k \in DOMAIN f
      st == IF has(K_status) THEN EnumOf(StatusName, f[K_status]) ELSE {}
      updOk == ~has(K_updated) \/ IsStamp(f[K_updated])
  IN IF acc.err \/ ~has(K_title) \/ st = {} \/ ~updOk THEN <<>>
     ELSE <<MilestoneMetadata(
              YamlUnscalar(f[K_title]),
              CHOOSE e \in st : TRUE,
              OptionOf(f, K_target_date),
              IF has(K_updated) THEN <<f[K_updated]>> ELSE <<>>)>>

\* the ProjectMetadata a mapping deserializes to, as an Option
DeserializeProject(acc) ==
  LET f == acc.fields
      has(k) == k \in DOMAIN f
      st == IF has(K_status) THEN EnumOf(StatusName, f[K_status]) ELSE {}
      pr == IF has(K_priority) THEN EnumOf(PriorityName, f[K_priority]) ELSE {}
      updOk == ~has(K_updated) \/ IsStamp(f[K_updated])
  IN IF acc.err \/ ~has(K_name) \/ st = {} \/ pr = {} \/ ~updOk THEN <<>>
     ELSE <<ProjectMetadata(
              YamlUnscalar(f[K_name]),
              OptionOf(f, K_project_id),
              CHOOSE e \in st : TRUE,
              CHOOSE e \in pr : TRUE,
              IF has(K_updated) THEN <<f[K_updated]>> ELSE <<>>)>>

\* serde_yaml::from_str::<MilestoneMetadata>(text), as an Option
from_yaml_milestone(text) ==
  DeserializeMilestone(YamlMap(DataLines(Lines(text)),
                               [fields |-> <<>>, items |-> <<>>, last |-> <<>>, err |-> FALSE]))

\* serde_yaml::from_str::<ProjectMetadata>(text), as an Option
from_yaml_project(text) ==
  DeserializeProject(YamlMap(DataLines(Lines(text)),
                             [fields |-> <<>>, items |-> <<>>, last |-> <<>>, err |-> FALSE]))

\* parse_frontmatter::<T> up to the decoding of the header block: the block and the
\* body, or the error (parse_frontmatter above is the instance for IssueMetadata)
split_frontmatter(text) ==
  LET split(rest, end_pos) ==
        IF end_pos < 0 THEN Err("UnterminatedHeader")
        ELSE [ok |-> TRUE, frontmatter |-> Sub(rest, 0, end_pos),
              description |-> Trim(From(rest, end_pos + 4))]
      header(rest) == split(rest, Find(rest, NL_DELIM))
      open(content) ==
        IF ~StartsWith(content, DELIM) THEN Err("MissingDelimiter")
        ELSE header(From(content, 3))
  IN open(Trim(text))

\* format!("---\n{}---\n\n{}", frontmatter, body.trim()) of write_with_frontmatter::<T>
format_frontmatter(frontmatter, description) ==
  DELIM \o <<NL>> \o frontmatter \o DELIM \o <<NL, NL>> \o Trim(description)

\* read_milestone
read_milestone(file_content) ==
  LET result(parts, metadata) ==
        IF metadata = <<>> THEN Err("HeaderDecodeError") ELSE Ok(metadata[1], parts.description)
      decode(parts) ==
        IF ~parts.ok THEN parts ELSE result(parts, from_yaml_milestone(parts.frontmatter))
  IN decode(split_frontmatter(file_content))

\* read_project
read_project(file_content) ==
  LET result(parts, metadata) ==
        IF metadata = <<>> THEN Err("HeaderDecodeError") ELSE Ok(metadata[1], parts.description)
      decode(parts) ==
        IF ~parts.ok THEN parts ELSE result(parts, from_yaml_project(parts.frontmatter))
  IN decode(split_frontmatter(file_content))

\* edit_milestone from the milestone found on: the file it leaves
edit_milestone(file_content, status, date, now) ==
  LET changed == status # <<>> \/ date # <<>>
      edit(milestone, st) ==
        IF ~milestone.ok THEN Failed(file_content)
        ELSE IF status # <<>> /\ st = <<>> THEN Failed(file_content)
        ELSE IF ~changed THEN Failed(file_content)
        ELSE Written(format_frontmatter(
               to_yaml_milestone([milestone.metadata EXCEPT
                  !.status = IF status = <<>> THEN @ ELSE st[1],
                  !.target_date = IF date = <<>> THEN @ ELSE date,
                  !.updated = <<now>>]),
               milestone.body))
  IN edit(read_milestone(file_content),
          IF status = <<>> THEN <<>> ELSE StatusFromStr(status[1]))

\* edit_project from the project found on: the README.md it leaves
edit_project(file_content, status, priority, now) ==
  LET changed == status # <<>> \/ priority # <<>>
      edit(project, st, pr) ==
        IF ~project.ok THEN Failed(file_content)
        ELSE IF status # <<>> /\ st = <<>> THEN Failed(file_content)
        ELSE IF priority # <<>> /\ pr = <<>> THEN Failed(file_content)
        ELSE IF ~changed THEN Failed(file_content)
        ELSE Written(format_frontmatter(
               to_yaml_project([project.metadata EXCEPT
                  !.status = IF status = <<>> THEN @ ELSE st[1],
                  !.priority = IF priority = <<>> THEN @ ELSE pr[1],
                  !.updated = <<now>>]),
               project.body))
  IN edit(read_project(file_content),
          IF status = <<>> THEN <<>> ELSE StatusFromStr(status[1]),
          IF priority = <<>> THEN <<>> ELSE PriorityFromStr(priority[1]))

(***************************************************************************)
(* The edit commands on a base directory whose files hold document text    *)
(***************************************************************************)
\* Path::file_stem and Path::extension of a file name: split at the last ".",
\* a name with no "." after its first character has no extension
LastDot(name) ==
  LET dots == {i \in 2..Len(name) : name[i] = "."}
  IN IF dots = {} THEN 0 ELSE CHOOSE i \in dots : \A j \in dots : j <= i

file_stem(name) == IF LastDot(name) = 0 THEN name ELSE SubSeq(name, 1, LastDot(name) - 1)

extension(name) == IF LastDot(name) = 0 THEN <<>> ELSE <<From(name, LastDot(name))>>

\* extract_issue_id: the file stem up to its first "-"
extract_issue_id(name) == Split(file_stem(name), "-")[1]

\* the ".md" files of a directory, as paths
MarkdownFiles(store, dir) ==
  {dir \o <<name>> : name \in {n \in read_dir(store, dir) :
                                 is_file(store, dir \o <<n>>) /\ extension(n) = <<<<"m", "d">>>>}}

\* crate::fs::list_issues: the issue files read_issue accepts
list_issues(store, project_path) ==
  IF ~path_exists(store, project_path \o IssuesDir) THEN {}
  ELSE {p \in MarkdownFiles(store, project_path \o IssuesDir) :
          parse_frontmatter(store.files[p]).ok}

\* crate::fs::list_milestones: the milestone files read_milestone accepts
list_milestones(store, project_path) ==
  IF ~path_exists(store, project_path \o MilestonesDir) THEN {}
  ELSE {p \in MarkdownFiles(store, project_path \o MilestonesDir) :
          read_milestone(store.files[p]).ok}

\* what an edit command answers when it finds no entity to edit
EditFailed(store) == [ok |-> FALSE, store |-> store, path |-> <<>>]

\* the answer for the entity found at path: written holds the answer of the edit
\* and the text the file is left with
EditDone(store, path, written) ==
  [ok |-> written.ok, store |-> fs_write(store, path, written.file), path |-> path]

\* str::split_once('/'), as an Option
split_once(id) ==
  LET n == Find(id, <<"/">>)
  IN IF n < 0 THEN <<>> ELSE <<<<Sub(id, 0, n), From(id, n + 1)>>>>

\* pillar issue edit: every answer edit_issue can give; the issues are found in the
\* order the directory walk yields them
issue_edit(store, id, a, now) ==
  LET found(issues) ==
        IF issues = {} THEN {EditFailed(store)}
        ELSE {EditDone(store, p, edit_issue(store.files[p], a.status, a.priority,
                                            a.milestone, a.tags, now)) : p \in issues}
      find(project_name, issue_id) ==
        IF ~path_exists(store, <<project_name>>) THEN {EditFailed(store)}
        ELSE found({p \in list_issues(store, <<project_name>>) :
                      extract_issue_id(p[Len(p)]) = issue_id})
      split(parts) ==
        IF parts = <<>> THEN {EditFailed(store)} ELSE find(parts[1][1], parts[1][2])
  IN split(split_once(id))

\* pillar milestone edit: every answer edit_milestone can give
milestone_edit(store, project_name, title, status, date, now) ==
  LET found(milestones) ==
        IF milestones = {} THEN {EditFailed(store)}
        ELSE {EditDone(store, p, edit_milestone(store.files[p], status, date, now)) :
                p \in milestones}
  IN IF ~path_exists(store, <<project_name>>) THEN {EditFailed(store)}
     ELSE found({p \in list_milestones(store, <<project_name>>) :
                   read_milestone(store.files[p]).metadata.title = title})

\* pillar project edit: the answer of edit_project; find_project reads README.md
project_edit(store, name, status, priority, now) ==
  IF ~path_exists(store, <<name>>) THEN EditFailed(store)
  ELSE IF ~is_file(store, <<name, README>>) THEN EditFailed(store)
  ELSE EditDone(store, <<name, README>>,
                edit_project(store.files[<<name, README>>], status, priority, now))

(***************************************************************************)
(* Editing the documents of a project                                      *)
(***************************************************************************)
\* a document after `comment add`
Commented(file_content) ==
  comment_add(file_content, <<"b", "o">>, Stamp(0), <<"o", "l", "d">>).file

\* the documents create_issue, create_milestone and create_project write
IssueDocument ==
  write_with_frontmatter(
    IssueMetadata(<<"x">>, "Todo", "Low", <<<<"v", "1">>>>, <<<<"t">>>>, <<Stamp(0)>>), <<"d", "\n">>)

MilestoneDocument ==
  format_frontmatter(to_yaml_milestone(MilestoneMetadata(<<"v", "1">>, "Backlog", <<>>, <<Stamp(0)>>)), <<"#", " ", "v", "1", "\n", "\n", "o", "b", "j", "e", "c", "t", "i", "v", "e", "s", "\n">>)

ProjectDocument ==
  format_frontmatter(to_yaml_project(ProjectMetadata(<<"a", "p", "p">>, <<<<"A", "P", "P">>>>, "Backlog", "Medium", <<Stamp(0)>>)),
    <<"#", " ", "a", "p", "p", "\n", "\n", "#", "#", " ", "G", "o", "a", "l", "s", "\n", "\n", "-", " ", "G", "o", "a", "l", " ", "1", "\n">>)

App == <<"a", "p", "p">>

IssueFile == <<App>> \o IssuesDir \o <<<<"0", "0", "1", "-", "x", ".", "m", "d">>>>

MilestoneFile == <<App>> \o MilestonesDir \o <<<<"v", "1", ".", "m", "d">>>>

\* a project with one milestone and one issue, holding the given documents, and
\* files the listings pass over
ProjectStore(project, milestone, issue) ==
  [dirs |-> {<<App>>, <<App>> \o IssuesDir, <<App>> \o MilestonesDir},
   files |-> [p \in {<<App, README>>, MilestoneFile, IssueFile,
                     <<App>> \o IssuesDir \o <<<<"0", "0", "1", "-", "x", ".", "t", "x", "t">>>>,
                     <<App>> \o IssuesDir \o <<<<"0", "0", "2", "-", "y", ".", "m", "d">>>>} |->
                IF p = <<App, README>> THEN project
                ELSE IF p = MilestoneFile THEN milestone
                ELSE IF p = IssueFile THEN issue
                ELSE <<"n", "o", "t", "e", "s">>]]

\* the base directories the edit commands start from: documents as created,
\* documents with a comment, and a project without milestones and README.md
EditStores ==
  {ProjectStore(ProjectDocument, MilestoneDocument, IssueDocument),
   ProjectStore(Commented(ProjectDocument), Commented(MilestoneDocument),
                Commented(IssueDocument)),
   [dirs |-> {<<App>>, <<App>> \o IssuesDir},
    files |-> [p \in {IssueFile} |-> Commented(IssueDocument)]]}

\* the ids given to issue edit
IssueEditIds == {<<"a", "p", "p", "/", "0", "0", "1">>, <<"a", "p", "p", "/", "1">>, <<"0", "0", "1">>}

\* the arguments given to issue edit
IssueEditInputs ==
  {EditArgs(<<>>, <<>>, <<>>, <<>>),
   EditArgs(<<<<"D", "O", "N", "E">>>>, <<>>, <<>>, <<>>),
   EditArgs(<<<<"d", "o", "n", "e">>>>, <<<<"z", "z">>>>, <<>>, <<>>),
   EditArgs(<<>>, <<<<"h", "i", "g", "h">>>>, <<<<>>>>, <<<<"a", ",", " ", "b">>>>)}

\* the project and title given to milestone edit
MilestoneEditIds == {<<<<"a", "p", "p">>, <<"v", "1">>>>, <<<<"w", "e", "b">>, <<"v", "1">>>>}

MilestoneArgs(status, date) == [status |-> status, date |-> date]

\* the arguments given to milestone edit
MilestoneEditInputs ==
  {MilestoneArgs(<<>>, <<>>),
   MilestoneArgs(<<<<"d", "o", "n", "e">>>>, <<>>),
   MilestoneArgs(<<<<"b", "o", "g", "u", "s">>>>, <<<<"2", "0", "2", "6", "-", "0", "1", "-", "0", "1">>>>),
   MilestoneArgs(<<>>, <<<<"2", "0", "2", "6", "-", "0", "1", "-", "0", "1">>>>)}

\* the names given to project edit
ProjectEditIds == {<<"a", "p", "p">>, <<"w", "e", "b">>}

ProjectArgs(status, priority) == [status |-> status, priority |-> priority]

\* the arguments given to project edit
ProjectEditInputs ==
  {ProjectArgs(<<>>, <<>>),
   ProjectArgs(<<<<"d", "o", "n", "e">>>>, <<>>),
   ProjectArgs(<<<<"d", "o", "n", "e">>>>, <<<<"z", "z">>>>),
   ProjectArgs(<<>>, <<<<"h", "i", "g", "h">>>>)}

\* the entity an edit command is given and its arguments
EditCall(id, a) == [id |-> id, args |-> a]

InitEdits ==
  /\ file = NoValue /\ clock = 1 /\ last = NoValue
  /\ initial = NoValue /\ added = <<>> /\ plain = TRUE
  /\ NoCodec /\ NoUuids /\ NoRace
  /\ fs \in EditStores
  /\ made = <<>>
  /\ outcome = Outcome("none", "none", <<>>, FALSE, <<>>)

\* pillar issue edit <project>/<id> [--status] [--priority] [--milestone] [--tags]
IssueEdit ==
  /\ clock <= MaxClock
  /\ \E id \in IssueEditIds, a \in IssueEditInputs :
       \E r \in issue_edit(fs, id, a, Stamp(clock)) :
         /\ fs' = r.store
         /\ outcome' = Outcome("edit", "issue", EditCall(id, a), r.ok, r.path)
  /\ clock' = clock + 1
  /\ UNCHANGED <<file, last, initial, added, plain, codecVars, uuids, raceVars, made>>

\* pillar milestone edit <project> <title> [--status] [--date]
MilestoneEdit ==
  /\ clock <= MaxClock
  /\ \E id \in MilestoneEditIds, a \in MilestoneEditInputs :
       \E r \in milestone_edit(fs, id[1], id[2], a.status, a.date, Stamp(clock)) :
         /\ fs' = r.store
         /\ outcome' = Outcome("edit", "milestone", EditCall(id, a), r.ok, r.path)
  /\ clock' = clock + 1
  /\ UNCHANGED <<file, last, initial, added, plain, codecVars, uuids, raceVars, made>>

\* pillar project edit <name> [--status] [--priority]
ProjectEdit ==
  /\ clock <= MaxClock
  /\ \E name \in ProjectEditIds, a \in ProjectEditInputs :
       LET r == project_edit(fs, name, a.status, a.priority, Stamp(clock))
       IN /\ fs' = r.store
          /\ outcome' = Outcome("edit", "project", EditCall(name, a), r.ok, r.path)
  /\ clock' = clock + 1
  /\ UNCHANGED <<file, last, initial, added, plain, codecVars, uuids, raceVars, made>>

NextEdits == IssueEdit \/ MilestoneEdit \/ ProjectEdit

SpecEdits == InitEdits /\ [][NextEdits]_vars

\* the step is a successful edit of the given kind
Edited(entity) ==
  outcome'.command = "edit" /\ outcome'.entity = entity /\ outcome'.ok

\* the files other than path, and the directories, are as before the step
OnlyWritten(path) ==
  /\ fs'.dirs = fs.dirs
  /\ DOMAIN fs'.files = DOMAIN fs.files
  /\ \A p \in DOMAIN fs.files \ {path} : fs'.files[p] = fs.files[p]

\* the document read after the edit has the trimmed body and the comment log of
\* the document read before it, and the edit's timestamp
BodyKept(before, after, path) ==
  /\ before.ok /\ after.ok
  /\ after.metadata.updated = <<Stamp(clock)>>
  /\ after.body = Trim(before.body)
  /\ Readable(fs'.files[path]) = Readable(fs.files[path])

IssueFrame(a, before, after) ==
  Unnamed(a, after.metadata) = Unnamed(a, before.metadata)

MilestoneFrame(a, before, after) ==
  /\ after.metadata.title = before.metadata.title
  /\ a.status = <<>> => after.metadata.status = before.metadata.status
  /\ a.date = <<>> => after.metadata.target_date = before.metadata.target_date

ProjectFrame(a, before, after) ==
  /\ after.metadata.name = before.metadata.name
  /\ after.metadata.project_id = before.metadata.project_id
  /\ a.status = <<>> => after.metadata.status = before.metadata.status
  /\ a.priority = <<>> => after.metadata.priority = before.metadata.priority

IssueEditKeepsBody ==
  LET kept(before, after) ==
        /\ BodyKept(before, after, outcome'.path)
        /\ IssueFrame(outcome'.identifier.args, before, after)
  IN Edited("issue") =>
       /\ OnlyWritten(outcome'.path)
       /\ kept(parse_frontmatter(fs.files[outcome'.path]),
               parse_frontmatter(fs'.files[outcome'.path]))

MilestoneEditKeepsBody ==
  LET kept(before, after) ==
        /\ BodyKept(before, after, outcome'.path)
        /\ MilestoneFrame(outcome'.identifier.args, before, after)
  IN Edited("milestone") =>
       /\ OnlyWritten(outcome'.path)
       /\ kept(read_milestone(fs.files[outcome'.path]),
               read_milestone(fs'.files[outcome'.path]))

ProjectEditKeepsBody ==
  LET kept(before, after) ==
        /\ BodyKept(before, after, outcome'.path)
        /\ ProjectFrame(outcome'.identifier.args, before, after)
  IN Edited("project") =>
       /\ OnlyWritten(outcome'.path)
       /\ kept(read_project(fs.files[outcome'.path]),
               read_project(fs'.files[outcome'.path]))

\* C27: a successful edit_issue, edit_milestone or edit_project changes only the
\* header fields named in the call and `updated`, in the one file it writes; it
\* writes back the trimmed body it read, and the comment log of the document is
\* the same before and after
C27_EditKeepsBody ==
  [][IssueEditKeepsBody /\ MilestoneEditKeepsBody /\ ProjectEditKeepsBody]_vars

\* a milestone with a comment has been edited after the project with a comment:
\* each file carries its edit's timestamp and still lists its comment
C27_Witness ==
  /\ clock = MaxClock + 1
  /\ outcome.command = "edit" /\ outcome.entity = "milestone" /\ outcome.ok
  /\ read_milestone(fs.files[outcome.path]).metadata.updated = <<Stamp(clock - 1)>>
  /\ Len(Readable(fs.files[outcome.path])) = 1
  /\ read_project(fs.files[<<App, README>>]).metadata.updated = <<Stamp(clock - 2)>>
  /\ Len(Readable(fs.files[<<App, README>>])) = 1

\* C28: an edit command that answers with an error (entity not found, no change
\* named, an invalid status or priority, also after a valid field) leaves every
\* file and directory as it was
C28_FailedEditChangesNothing ==
  [][(outcome'.command = "edit" /\ ~outcome'.ok) => fs' = fs]_vars

\* an issue edit naming a valid status and an invalid priority has failed on an
\* issue that exists, after an edit that succeeded
C28_Witness ==
  /\ outcome.command = "edit" /\ outcome.entity = "issue" /\ ~outcome.ok
  /\ outcome.path = IssueFile
  /\ outcome.identifier.args.status # <<>>
  /\ StatusFromStr(outcome.identifier.args.status[1]) # <<>>
  /\ outcome.identifier.args.priority # <<>>
  /\ PriorityFromStr(outcome.identifier.args.priority[1]) = <<>>
  /\ parse_frontmatter(fs.files[IssueFile]).metadata.updated = <<Stamp(1)>>

\* the other failures happen: no change named, an invalid status, an entity that
\* is not found
FailedEditKinds ==
  /\ outcome.command = "edit" /\ ~outcome.ok
  /\ \/ outcome.entity = "milestone" /\ outcome.path = MilestoneFile
        /\ outcome.identifier.args.status # <<>>
     \/ outcome.entity = "project" /\ outcome.path = <<>>

(***************************************************************************)
(* The web UI's issue update and the description                           *)
(***************************************************************************)
\* the step is the PATCH request with the given payload, sent for an issue that
\* exists, with a description and no field the handler rejects
Patched(payload) ==
  /\ last'.op = "update"
  /\ parse_frontmatter(file).ok
  /\ payload.description # <<>>
  /\ payload.status # <<>> => StatusFromStr(payload.status[1]) # <<>>
  /\ update_issue_handler(file, payload, Stamp(clock)) = [ok |-> last'.ok, file |-> file']

\* the handler has answered OK and the issue's body is the trimmed description
DescriptionApplied(payload) ==
  /\ last'.ok
  /\ parse_frontmatter(file').ok
  /\ parse_frontmatter(file').body = Trim(payload.description[1])

\* C30: every PATCH request with a description to an existing issue, also one
\* with a description and no status, priority, milestone or tags, is answered
\* OK and leaves the issue's body equal to the trimmed description
C30_DescriptionApplied ==
  [][\A payload \in Payloads : Patched(payload) => DescriptionApplied(payload)]_vars

\* the same for the requests that name a field besides the description
DescriptionAppliedWithField ==
  [][\A payload \in Payloads :
       (Patched(payload) /\ payload.status # <<>>) => DescriptionApplied(payload)]_vars

\* a request with a description and a status has been answered OK
DescriptionUpdated ==
  /\ last = LastOp("update", TRUE)
  /\ parse_frontmatter(file).ok
  /\ parse_frontmatter(file).body = <<"n", "e", "w">>

====
